---- MODULE Spec2Model ----
(***************************************************************************)
(* Distributed build cache: the gRPC data plane (CacheServer over          *)
(* cache.Service over a Cloud Storage bucket) and the pruning controller   *)
(* (pruning.Service).                                                      *)
(*                                                                         *)
(* Strings are sequences of one-character strings, so that the key         *)
(* derivation is computed character by character as the code does.         *)
(* Time is counted in ticks of half a second; RFC 3339 formatting keeps    *)
(* whole seconds only.                                                     *)
(***************************************************************************)
EXTENDS Integers, Sequences, FiniteSets, TLC

VARIABLES
    store,       \* the bucket: object name -> object (attrs, user metadata, bytes)
    now,         \* wall clock, in ticks
    srvMetrics,  \* CacheServer.metrics: TRUE when a collector is set, FALSE when nil
    crashed,     \* the process died of a runtime fault (panic)
    put,         \* the Put RPC in flight: handler, receive goroutine, pipe, writer
    get,         \* the Get RPC in flight
    cont,        \* the Contains RPC in flight
    prn,         \* the pruning controller's cycle
    cfg,         \* pruning.Config
    kd,          \* key derivation under test: two (instance, hash) pairs and their names
    okKeys,      \* history: the (instance, hash) pairs put completely and not deleted since
    nput,        \* history: the number of Put RPCs started
    ar,          \* the action-result RPC in flight
    loop,        \* pruning.Service.Start: its ticker and its loop
    sd,          \* main's shutdown sequence and the gRPC server it stops
    conf,        \* the configuration Load read and what Validate made of it
    gc           \* the standalone pruner: one run of gcs Client.Prune

vars == <<store, now, srvMetrics, crashed, put, get, cont, prn, cfg, kd, okKeys, nput, ar, loop, sd, conf, gc>>

----------------------------------------------------------------------------
(* Bounds *)

MaxLen == 2          \* longest payload a client sends, in bytes
MaxInstLen == 2      \* longest instance name drawn for the key derivation
MaxDigests == 2      \* longest digest list of a Contains request
MaxPuts == 1         \* Put RPCs in one behaviour
MaxTouches == 1      \* reads that touch an entry while the pruner is at work
MaxTime == 3         \* the clock's last tick in the behaviours that let time pass
MaxStreams == 2      \* Put streams the server handles at a time
MaxTicks == 4        \* ticks of the pruner's ticker in one behaviour
MaxCycles == 3       \* pruning cycles Start begins in one behaviour
MaxRpcs == 4         \* RPCs the server accepts in the behaviours that shut it down

----------------------------------------------------------------------------
(* Time *)

TicksPerSecond == 2
Hour == 3600 * TicksPerSecond
Day == 24 * Hour

\* time.Now().Format(time.RFC3339) followed by time.Parse(time.RFC3339, .):
\* the stored text has no fractional seconds.
FormatRFC3339(t) == t - (t % TicksPerSecond)

----------------------------------------------------------------------------
(* Strings and key derivation *)

ReplaceAll(s, old, new) == [i \in 1..Len(s) |-> IF s[i] = old THEN new ELSE s[i]]

HasPrefix(s, p) == Len(s) >= Len(p) /\ SubSeq(s, 1, Len(p)) = p

CachePrefix == <<"c", "a", "c", "h", "e", "/">>
CacheUnderscore == <<"c", "a", "c", "h", "e", "_">>

\* fmt.Sprintf("%s/%s", instance, hash)
CacheKey(instance, hash) == instance \o <<"/">> \o hash

sanitizeKey(key) ==
    LET s1 == ReplaceAll(key, "/", "_")
        s2 == ReplaceAll(s1, "\\", "_")
        s3 == ReplaceAll(s2, ":", "_")
        s4 == IF HasPrefix(s3, <<".">>) THEN CacheUnderscore \o s3 ELSE s3
    IN  CachePrefix \o s4

\* the object name a handler uses for (instance, hash)
ObjectName(instance, hash) == sanitizeKey(CacheKey(instance, hash))

H1 == <<"1", "f">>
H2 == <<"2", "e">>
Hashes == {H1, H2}

IA == <<"a", "/", "b">>
IB == <<"a", "_", "b">>
Instances == {IA, IB}

\* instance names of the grammar [A-Za-z0-9_\-/]+ over a small alphabet
InstChars == {"a", "_", "/"}
SeqsUpTo(S, n) == UNION {[1..m -> S] : m \in 1..n}
GrammarInstances == SeqsUpTo(InstChars, MaxInstLen)
GrammarKeys == GrammarInstances \X Hashes

----------------------------------------------------------------------------
(* Bytes, chunks and the digest *)

\* the payloads clients send: n bytes in which every byte differs from its
\* neighbours, so that a lost, repeated or displaced byte shows
Pattern(n) == [i \in 1..n |-> i % 2]
Payloads == {Pattern(n) : n \in 0..MaxLen}

Min(a, b) == IF a < b THEN a ELSE b

RECURSIVE Chunked(_, _)
\* the client cuts a payload into chunks of c bytes (the last one may be shorter)
Chunked(b, c) ==
    IF Len(b) = 0 THEN <<>>
    ELSE <<SubSeq(b, 1, Min(c, Len(b)))>> \o Chunked(SubSeq(b, Min(c, Len(b)) + 1, Len(b)), c)

RECURSIVE Concat(_)
Concat(chunks) == IF chunks = <<>> THEN <<>> ELSE Head(chunks) \o Concat(Tail(chunks))

RECURSIVE SumSeq(_)
SumSeq(b) == IF b = <<>> THEN 0 ELSE Head(b) + SumSeq(Tail(b))

\* sha256 over the bytes, rendered as a hash of the model's hash alphabet
Sha256(b) == IF (SumSeq(b) + Len(b)) % 2 = 0 THEN H1 ELSE H2

----------------------------------------------------------------------------
(* The bucket *)

Exists(name) == name \in DOMAIN store

\* the object a writer commits on Close
NewObject(key, data, la, sa) ==
    [data |-> data, size |-> Len(data),
     meta |-> [cache_key |-> key, last_accessed |-> la, stored_at |-> sa],
     updated |-> now]

StoreAppending(st, name, obj) ==
    [n \in DOMAIN st \cup {name} |->
        IF n # name THEN st[n]
        ELSE IF name \in DOMAIN st
             THEN [obj EXCEPT !.data = st[name].data \o obj.data,
                              !.size = st[name].size + obj.size]
             ELSE obj]

\* writer.Close(): the object of that name is created or replaced as a whole
StoreWith(st, name, obj) ==
    [n \in DOMAIN st \cup {name} |-> IF n = name THEN obj ELSE st[n]]

StoreWithout(st, name) == [n \in DOMAIN st \ {name} |-> st[n]]

\* obj.Update(ctx, ObjectAttrsToUpdate{Metadata: {"last_accessed": now}}):
\* a metadata patch, the other metadata keys stay
UpdateLastAccessed(st, name) ==
    [st EXCEPT ![name].meta.last_accessed = FormatRFC3339(now),
               ![name].updated = now]

BackendFaultsGet == {"none", "attrs", "update", "reader"}

SvcGetSurfacesUpdate(key, flt) ==
    LET name == sanitizeKey(key) IN
    IF flt = "attrs" THEN [err |-> "attrs", st |-> store, data |-> <<>>, size |-> 0]
    ELSE IF ~Exists(name) THEN [err |-> "miss", st |-> store, data |-> <<>>, size |-> 0]
    ELSE IF flt = "update" THEN [err |-> "update", st |-> store, data |-> <<>>, size |-> 0]
    ELSE IF flt = "reader"
         THEN [err |-> "reader", st |-> UpdateLastAccessed(store, name), data |-> <<>>,
               size |-> 0]
         ELSE [err |-> "none", st |-> UpdateLastAccessed(store, name),
               data |-> store[name].data, size |-> store[name].size]

\* cache.Service.Get: Attrs, then the last_accessed update, then NewReader.
\* flt names the backend call that fails in this invocation, if any.
SvcGet(key, flt) ==
    LET name == sanitizeKey(key) IN
    IF flt = "attrs" THEN [err |-> "attrs", st |-> store, data |-> <<>>, size |-> 0]
    ELSE IF ~Exists(name) THEN [err |-> "miss", st |-> store, data |-> <<>>, size |-> 0]
    ELSE LET st1 == IF flt = "update" THEN store ELSE UpdateLastAccessed(store, name) IN
         IF flt = "reader" THEN [err |-> "reader", st |-> st1, data |-> <<>>, size |-> 0]
         ELSE [err |-> "none", st |-> st1, data |-> store[name].data,
               size |-> store[name].size]

----------------------------------------------------------------------------
(* CacheServer.Put: the handler, its receive goroutine and the pipe *)

\* the Put streams: each is served by its own handler invocation
PutIds == 1..MaxStreams

PutIdle ==
    [hpc |-> "idle", gpc |-> "none", first |-> "meta", inst |-> <<>>, hash |-> <<>>,
     declSize |-> 0, payload |-> <<>>, firstData |-> <<>>, msgs |-> <<>>, cend |-> "eof",
     offered |-> FALSE, pipe |-> <<>>, pclosed |-> FALSE,
     wbuf |-> <<>>, wla |-> 0, wsa |-> 0, errChan |-> "empty", cancelled |-> FALSE,
     status |-> "none", label |-> "none", respSize |-> 0, prior |-> FALSE,
     committed |-> FALSE, retAt |-> 0]

FirstKinds == {"meta", "nometa", "nodigest", "recverr"}

\* a handler returns: the request counter is incremented and the deferred
\* duration observation runs, both through s.metrics
\* (what the RPC no longer uses is dropped from its record)
PutReturn(r, st, lb) ==
    LET r1 == [r EXCEPT !.hpc = "done", !.firstData = <<>>, !.msgs = <<>>, !.pipe = <<>>,
                        !.wbuf = <<>>, !.wla = 0, !.wsa = 0, !.cend = "eof",
                        !.retAt = now]
    IN  IF srvMetrics
        THEN [r1 EXCEPT !.status = st, !.label = lb]
        ELSE [r1 EXCEPT !.status = "fault"]

\* A client opens a Put stream.  It declares dsize as digest.size_bytes and
\* means to send payload in chunks of csize bytes; nsent of them reach the
\* server, followed by end-of-stream (cend = "eof") or by a failure of the
\* stream (cend = "err").  fd: the first chunk travels in the message that
\* carries the metadata.
PutBegin(s, first, inst, hash, payload, dsize, csize, nsent, cend, fd) ==
    LET chunks == Chunked(payload, csize)
        delivered == SubSeq(chunks, 1, nsent)
        inFirst == fd /\ delivered # <<>>
    IN
    /\ ~crashed
    /\ put[s].hpc \in {"idle", "done"}
    /\ nput' = nput + 1
    /\ nsent \in 0..Len(chunks)
    /\ cend = "eof" => nsent = Len(chunks)
    /\ fd => delivered # <<>>
    /\ put' = [put EXCEPT ![s] =
            [PutIdle EXCEPT !.hpc = "recvFirst", !.first = first,
                            !.inst = inst, !.hash = hash,
                            !.declSize = dsize, !.payload = payload,
                            !.firstData = IF inFirst THEN Head(delivered) ELSE <<>>,
                            !.msgs = IF inFirst THEN Tail(delivered) ELSE delivered,
                            !.cend = cend,
                            !.prior = Exists(ObjectName(inst, hash))]]
    /\ UNCHANGED <<store, now, srvMetrics, crashed, get, cont, prn, cfg, kd, okKeys, ar, loop, sd, conf, gc>>

PutFirstCheckMetadataOnly(first) ==
    IF first = "recverr" THEN "recv_error"
    ELSE IF first = "nometa" THEN "invalid_request"
    ELSE "ok"

\* what the handler makes of the first message: Recv failed; req.Metadata is
\* nil or req.Metadata.Digest is nil; or the Put goes on
PutFirstCheck(first) ==
    IF first = "recverr" THEN "recv_error"
    ELSE IF first \in {"nometa", "nodigest"} THEN "invalid_request"
    ELSE "ok"

\* stream.Recv of the first message and the metadata checks; then the pipe
\* and the goroutine are created and the handler enters cache.Put
PutRecvFirst(s) ==
    LET r == put[s] IN
    /\ ~crashed
    /\ r.hpc = "recvFirst"
    /\ IF PutFirstCheck(r.first) = "recv_error" \/ r.cancelled
       THEN /\ put' = [put EXCEPT ![s] = PutReturn(r, "InvalidArgument", "recv_error")]
            /\ crashed' = ~srvMetrics
       ELSE IF PutFirstCheck(r.first) = "invalid_request"
       THEN /\ put' = [put EXCEPT ![s] = PutReturn(r, "InvalidArgument", "invalid_request")]
            /\ crashed' = ~srvMetrics
       ELSE /\ put' = [put EXCEPT ![s].hpc = "newWriter", ![s].gpc = "first"]
            /\ UNCHANGED crashed
    /\ UNCHANGED <<store, now, srvMetrics, get, cont, prn, cfg, kd, okKeys, nput, ar, loop, sd, conf, gc>>

\* cache.Service.Put creates the writer; the two metadata timestamps are two
\* readings of the clock
PutNewWriterLastAccessed(s) ==
    /\ ~crashed
    /\ put[s].hpc = "newWriter"
    /\ put' = [put EXCEPT ![s].hpc = "newWriter2", ![s].wla = FormatRFC3339(now)]
    /\ UNCHANGED <<store, now, srvMetrics, crashed, get, cont, prn, cfg, kd, okKeys, nput, ar, loop, sd, conf, gc>>

PutNewWriterStoredAt(s) ==
    /\ ~crashed
    /\ put[s].hpc = "newWriter2"
    /\ put' = [put EXCEPT ![s].hpc = "copy", ![s].wsa = FormatRFC3339(now)]
    /\ UNCHANGED <<store, now, srvMetrics, crashed, get, cont, prn, cfg, kd, okKeys, nput, ar, loop, sd, conf, gc>>

\* goroutine: the data of the first message goes into the pipe
PutGoFirst(s) ==
    LET r == put[s] IN
    /\ ~crashed
    /\ r.gpc = "first"
    /\ put' = IF Len(r.firstData) > 0
              THEN [put EXCEPT ![s].gpc = "writing", ![s].offered = TRUE,
                               ![s].pipe = r.firstData]
              ELSE [put EXCEPT ![s].gpc = "recv"]
    /\ UNCHANGED <<store, now, srvMetrics, crashed, get, cont, prn, cfg, kd, okKeys, nput, ar, loop, sd, conf, gc>>

\* goroutine: one stream.Recv of the loop.  A chunk goes into the pipe (the
\* write blocks until the reader took it); io.EOF sends nil on errChan; any
\* other error sends it on errChan; in both cases the deferred pw.Close() runs.
PutGoRecv(s) ==
    LET r == put[s] IN
    /\ ~crashed
    /\ r.gpc = "recv"
    /\ put' =
         IF r.cancelled \/ r.hpc = "done" \/ (r.msgs = <<>> /\ r.cend = "err")
         THEN [put EXCEPT ![s].gpc = "exit", ![s].errChan = "err", ![s].pclosed = TRUE]
         ELSE IF r.msgs = <<>>
         THEN [put EXCEPT ![s].gpc = "exit", ![s].errChan = "nil", ![s].pclosed = TRUE]
         ELSE IF Len(Head(r.msgs)) > 0
         THEN [put EXCEPT ![s].gpc = "writing", ![s].offered = TRUE,
                          ![s].pipe = Head(r.msgs), ![s].msgs = Tail(r.msgs)]
         ELSE [put EXCEPT ![s].msgs = Tail(r.msgs)]
    /\ UNCHANGED <<store, now, srvMetrics, crashed, get, cont, prn, cfg, kd, okKeys, nput, ar, loop, sd, conf, gc>>

\* the RPC's context is cancelled (client cancel, deadline, broken connection)
PutCancel(s) ==
    /\ ~crashed
    /\ put[s].hpc \notin {"idle", "done"}
    /\ ~put[s].cancelled
    /\ put' = [put EXCEPT ![s].cancelled = TRUE]
    /\ UNCHANGED <<store, now, srvMetrics, crashed, get, cont, prn, cfg, kd, okKeys, nput, ar, loop, sd, conf, gc>>

\* handler, inside cache.Service.Put: one round of io.Copy(writer, tee).
\* A chunk read from the pipe is written to the writer; end of the pipe ends
\* the copy and writer.Close() commits the object.  wfail: the backend fails
\* this write or this close.
PutCopy(s, wfail) ==
    LET r == put[s]
        name == ObjectName(r.inst, r.hash)
    IN
    /\ ~crashed
    /\ r.hpc = "copy"
    /\ r.offered \/ r.pclosed
    /\ IF r.offered
       THEN \* pr.Read returns the chunk and releases the blocked pw.Write
            IF wfail \/ r.cancelled
            THEN /\ put' = [put EXCEPT ![s].offered = FALSE, ![s].pipe = <<>>,
                                      ![s].gpc = "recv", ![s].hpc = "copyFailed"]
                 /\ UNCHANGED <<store, crashed>>
            ELSE /\ put' = [put EXCEPT ![s].offered = FALSE, ![s].pipe = <<>>,
                                      ![s].gpc = "recv",
                                      ![s].wbuf = r.wbuf \o r.pipe]
                 /\ UNCHANGED <<store, crashed>>
       ELSE \* pr.Read returns io.EOF: io.Copy returns nil, then writer.Close()
            IF wfail \/ r.cancelled
            THEN /\ put' = [put EXCEPT ![s] = PutReturn(r, "Internal", "storage_error")]
                 /\ crashed' = ~srvMetrics
                 /\ UNCHANGED store
            ELSE /\ store' = StoreWith(store, name,
                               NewObject(CacheKey(r.inst, r.hash), r.wbuf, r.wla, r.wsa))
                 /\ put' = [put EXCEPT ![s].hpc = "waitErr", ![s].committed = TRUE]
                 /\ UNCHANGED crashed
    /\ okKeys' = IF r.offered \/ wfail \/ r.cancelled \/ r.errChan # "nil"
                 THEN okKeys ELSE okKeys \cup {<<r.inst, r.hash>>}
    /\ UNCHANGED <<now, srvMetrics, get, cont, prn, cfg, kd, nput, ar, loop, sd, conf, gc>>

\* handler: io.Copy returned the writer's error with data still to come.
\* cache.Put closes the writer and returns the error, the handler counts a
\* storage_error and returns Internal; the read side of the pipe is left as
\* it is, neither read again nor closed
PutCopyFailed(s) ==
    /\ ~crashed
    /\ put[s].hpc = "copyFailed"
    /\ put' = [put EXCEPT ![s] = PutReturn(put[s], "Internal", "storage_error")]
    /\ crashed' = ~srvMetrics
    /\ UNCHANGED <<store, now, srvMetrics, get, cont, prn, cfg, kd, okKeys, nput, ar, loop, sd, conf, gc>>

\* handler: <-errChan
PutWaitErr(s) ==
    LET r == put[s] IN
    /\ ~crashed
    /\ r.hpc = "waitErr"
    /\ r.errChan # "empty"
    /\ IF r.errChan = "err"
       THEN /\ put' = [put EXCEPT ![s] = PutReturn(r, "Internal", "stream_error")]
            /\ crashed' = ~srvMetrics
       ELSE /\ put' = [put EXCEPT ![s].hpc = "respond"]
            /\ UNCHANGED crashed
    /\ UNCHANGED <<store, now, srvMetrics, get, cont, prn, cfg, kd, okKeys, nput, ar, loop, sd, conf, gc>>

\* handler: stream.SendAndClose(PutResponse{Digest, Size: Digest.SizeBytes})
PutRespond(s, sfail) ==
    LET r == put[s] IN
    /\ ~crashed
    /\ r.hpc = "respond"
    /\ IF sfail \/ r.cancelled
       THEN put' = [put EXCEPT ![s] = PutReturn(r, "Internal", "response_error")]
       ELSE put' = [put EXCEPT ![s] =
                          PutReturn([r EXCEPT !.respSize = r.declSize], "OK", "success")]
    /\ crashed' = ~srvMetrics
    /\ UNCHANGED <<store, now, srvMetrics, get, cont, prn, cfg, kd, okKeys, nput, ar, loop, sd, conf, gc>>

----------------------------------------------------------------------------
(* CacheServer.Get *)

GetBufSize == 64 * 1024

\* the handler's mapping of cache.Get's error: any error is reported as a miss
GetStatus(err) == IF err = "none" THEN "OK" ELSE "NotFound"

ReadChunkDropsOffset(data, pos, n) == SubSeq(data, 1, n)

\* reader.Read fills buffer[:n] with the next n bytes of the object
ReadChunk(data, pos, n) == SubSeq(data, pos + 1, pos + n)

GetIdle ==
    [pc |-> "idle", inst |-> <<>>, hash |-> <<>>, data |-> <<>>, size |-> 0, pos |-> 0,
     sent |-> <<>>, status |-> "none", label |-> "none", expectMiss |-> FALSE,
     follows |-> FALSE, expect |-> <<>>, err |-> "none", at |-> 0, updFailed |-> FALSE,
     reader |-> FALSE, delMid |-> FALSE]

\* the handler returns; the deferred reader.Close() closes the reader, if
\* cache.Get had opened one
GetReturn(r, st, lb) ==
    IF srvMetrics
    THEN [r EXCEPT !.pc = "done", !.status = st, !.label = lb, !.reader = FALSE]
    ELSE [r EXCEPT !.pc = "done", !.status = "fault", !.reader = FALSE]

\* the handler up to the first Read: digest check, key, cache.Get
GetCall(inst, hash, hasDigest, flt) ==
    LET key == CacheKey(inst, hash)
        res == SvcGet(key, flt)
        \* history: this Get follows a Put of the same (instance, hash) that returned OK
        follows == \E s \in PutIds : /\ put[s].hpc = "done" /\ put[s].status = "OK"
                                     /\ put[s].inst = inst /\ put[s].hash = hash
        \* history: when the call was made, cache.Get's error, and whether the
        \* last_accessed update of an existing entry failed
        r0 == [GetIdle EXCEPT !.inst = inst, !.hash = hash, !.at = now,
                              !.updFailed = /\ hasDigest /\ flt = "update"
                                            /\ Exists(sanitizeKey(key)),
                              !.err = IF hasDigest THEN res.err ELSE "none",
                              !.expectMiss = (<<inst, hash>> \notin okKeys),
                              !.follows = follows,
                              !.expect = IF follows
                                         THEN put[CHOOSE s \in PutIds : put[s].status = "OK"
                                                     /\ put[s].inst = inst /\ put[s].hash = hash].payload
                                         ELSE <<>>]
    IN
    /\ ~crashed
    /\ get.pc \in {"idle", "done"}
    /\ IF ~hasDigest
       THEN /\ get' = GetReturn(r0, "InvalidArgument", "invalid_request")
            /\ crashed' = ~srvMetrics
            /\ UNCHANGED store
       ELSE /\ store' = res.st
            /\ IF GetStatus(res.err) # "OK"
               THEN /\ get' = GetReturn(r0, GetStatus(res.err), "error")
                    /\ crashed' = ~srvMetrics
               ELSE /\ get' = [r0 EXCEPT !.pc = "stream", !.data = res.data,
                                         !.size = res.size, !.reader = TRUE]
                    /\ UNCHANGED crashed
    /\ UNCHANGED <<now, srvMetrics, put, cont, prn, cfg, kd, okKeys, nput, ar, loop, sd, conf, gc>>

GetReadFailedEndsStream == [status |-> "OK", label |-> "success"]

\* reader.Read returned an error other than io.EOF
GetReadFailed == [status |-> "Internal", label |-> "read_error"]

\* one round of the streaming loop: reader.Read into the 64 KiB buffer, then
\* stream.Send of the bytes read; io.EOF ends the loop
GetStream(n, rfail, sfail) ==
    LET remaining == Len(get.data) - get.pos IN
    /\ ~crashed
    /\ get.pc = "stream"
    /\ IF remaining = 0
       THEN /\ n = 1 /\ ~rfail /\ ~sfail
            /\ get' = GetReturn(get, "OK", "success")
            /\ crashed' = ~srvMetrics
       ELSE /\ n \in 1..Min(GetBufSize, remaining)
            /\ IF rfail
               THEN /\ ~sfail
                    /\ get' = GetReturn(get, GetReadFailed.status, GetReadFailed.label)
                    /\ crashed' = ~srvMetrics
               ELSE IF sfail
               THEN /\ get' = GetReturn(get, "Internal", "stream_error")
                    /\ crashed' = ~srvMetrics
               ELSE /\ get' = [get EXCEPT
                                 !.sent = get.sent \o
                                    <<[data |-> ReadChunk(get.data, get.pos, n),
                                       hash |-> get.hash, size |-> get.size]>>,
                                 !.pos = get.pos + n]
                    /\ UNCHANGED crashed
    /\ UNCHANGED <<store, now, srvMetrics, put, cont, prn, cfg, kd, okKeys, nput, ar, loop, sd, conf, gc>>

----------------------------------------------------------------------------
(* CacheServer.Contains *)

ContIdle ==
    [pc |-> "idle", inst |-> <<>>, digests |-> <<>>, k |-> 1, results |-> <<>>,
     present |-> FALSE, err |-> "none", expectMiss |-> FALSE,
     status |-> "none", label |-> "none", transient |-> FALSE, readers |-> 0]

DigestLists == UNION {[1..m -> Hashes] : m \in 0..MaxDigests}

ContExistsUnlessMiss(err) == err # "miss"

\* exists := err == nil
ContExists(err) == err = "none"

ContReturn(r, st, lb) ==
    IF srvMetrics
    THEN [r EXCEPT !.pc = "done", !.status = st, !.label = lb]
    ELSE [r EXCEPT !.pc = "done", !.status = "fault"]

ContBegin(inst, ds) ==
    LET r0 == [ContIdle EXCEPT !.inst = inst, !.digests = ds] IN
    /\ ~crashed
    /\ cont.pc \in {"idle", "done"}
    /\ IF Len(ds) = 0
       THEN /\ cont' = ContReturn(r0, "InvalidArgument", "invalid_request")
            /\ crashed' = ~srvMetrics
       ELSE /\ cont' = [r0 EXCEPT !.pc = "probe"]
            /\ UNCHANGED crashed
    /\ UNCHANGED <<store, now, srvMetrics, put, get, prn, cfg, kd, okKeys, nput, ar, loop, sd, conf, gc>>

\* one iteration of the loop over req.Digests: cache.Get, exists := err == nil.
\* transient: the backend error of this lookup, if any, is one a retry would
\* clear (the handler does not look at the kind of error)
ContProbe(flt, transient) ==
    LET h == cont.digests[cont.k]
        key == CacheKey(cont.inst, h)
        res == SvcGet(key, flt)
    IN
    /\ ~crashed
    /\ cont.pc = "probe"
    /\ transient => res.err \in {"attrs", "reader"}
    /\ store' = res.st
    /\ cont' = [cont EXCEPT
                  !.results = cont.results \o <<[hash |-> h, exists |-> ContExists(res.err)]>>,
                  \* history of this probe: the object was there, cache.Get's error
                  !.present = Exists(sanitizeKey(key)),
                  !.err = res.err,
                  !.transient = cont.transient \/ transient,
                  \* the reader cache.Get returned is dropped, not closed
                  !.readers = IF res.err = "none" THEN @ + 1 ELSE @,
                  !.expectMiss = (<<cont.inst, h>> \notin okKeys),
                  !.k = cont.k + 1,
                  !.pc = IF cont.k = Len(cont.digests) THEN "ret" ELSE "probe"]
    /\ UNCHANGED <<now, srvMetrics, crashed, put, get, prn, cfg, kd, okKeys, nput, ar, loop, sd, conf, gc>>

ContFinish ==
    /\ ~crashed
    /\ cont.pc = "ret"
    /\ cont' = ContReturn(cont, "OK", "success")
    /\ crashed' = ~srvMetrics
    /\ UNCHANGED <<store, now, srvMetrics, put, get, prn, cfg, kd, okKeys, nput, ar, loop, sd, conf, gc>>

----------------------------------------------------------------------------
(* cache.Service.Delete *)

\* Attrs (for the size gauge only), then obj.Delete; an absent object is
\* reported as success
SvcDelete(st, key, dfail) ==
    LET name == sanitizeKey(key) IN
    IF name \notin DOMAIN st THEN [err |-> FALSE, st |-> st]
    ELSE IF dfail THEN [err |-> TRUE, st |-> st]
    ELSE [err |-> FALSE, st |-> StoreWithout(st, name)]

\* the keys whose object a store change removed
KeysGone(st1, st2) ==
    {k \in okKeys : ObjectName(k[1], k[2]) \in DOMAIN st1 /\ ObjectName(k[1], k[2]) \notin DOMAIN st2}

\* a delete of one key by cache.Service.Delete, as the pruner's delete loop
\* or an administrator issues it (history: it removed the object a Get is
\* streaming)
AdminDelete(inst, hash, dfail) ==
    LET res == SvcDelete(store, CacheKey(inst, hash), dfail)
        mid == /\ get.pc = "stream"
               /\ ObjectName(inst, hash) = ObjectName(get.inst, get.hash)
               /\ ObjectName(inst, hash) \notin DOMAIN res.st
    IN
    /\ ~crashed
    /\ Exists(ObjectName(inst, hash))
    /\ store' = res.st
    /\ okKeys' = okKeys \ KeysGone(store, res.st)
    /\ get' = IF mid THEN [get EXCEPT !.delMid = TRUE] ELSE get
    /\ UNCHANGED <<now, srvMetrics, crashed, put, cont, prn, cfg, kd, nput, ar, loop, sd, conf, gc>>

----------------------------------------------------------------------------
(* The clients *)

\* a client is done with the outcome of a completed RPC
PutForget(s) ==
    /\ ~crashed
    /\ put[s].hpc = "done"
    /\ put' = [put EXCEPT ![s] = PutIdle]
    /\ UNCHANGED <<store, now, srvMetrics, crashed, get, cont, prn, cfg, kd, okKeys, nput, ar, loop, sd, conf, gc>>

GetForget ==
    /\ ~crashed
    /\ get.pc = "done"
    /\ get' = GetIdle
    /\ UNCHANGED <<store, now, srvMetrics, crashed, put, cont, prn, cfg, kd, okKeys, nput, ar, loop, sd, conf, gc>>

ContForget ==
    /\ ~crashed
    /\ cont.pc = "done"
    /\ cont' = ContIdle
    /\ UNCHANGED <<store, now, srvMetrics, crashed, put, get, prn, cfg, kd, okKeys, nput, ar, loop, sd, conf, gc>>

PutQuiet == \A s \in PutIds : put[s].hpc \in {"idle", "done"}

----------------------------------------------------------------------------
(* The data plane, one RPC at a time: an RPC starts when no other RPC is in *)
(* flight; within a Put the handler, the goroutine, the cancellation and    *)
(* the deletes interleave freely.                                           *)

\* no action-result RPC in flight; acked: the action keys an update acknowledged
ArIdle == [pc |-> "idle", rpc |-> "none", inst |-> <<>>, hash |-> <<>>,
           status |-> "none", label |-> "none", acked |-> {}]

KdIdle == [k1 |-> <<IA, H1>>, k2 |-> <<IA, H1>>, names |-> <<>>]

Init ==
    /\ store = <<>>
    /\ now = 0
    /\ srvMetrics \in BOOLEAN
    /\ crashed = FALSE
    /\ put = [s \in PutIds |-> PutIdle]
    /\ get = GetIdle
    /\ cont = ContIdle
    /\ prn = <<>>
    /\ cfg = <<>>
    /\ kd = KdIdle
    /\ okKeys = {}
    /\ nput = 0
    /\ ar = ArIdle
    /\ loop = <<>>
    /\ sd = <<>>
    /\ conf = <<>>
    /\ gc = <<>>

Next ==
    \/ \E s \in {1}, first \in FirstKinds, inst \in Instances, hash \in Hashes,
          payload \in Payloads, csize \in 1..MaxLen, nsent \in 0..MaxLen,
          cend \in {"eof", "err"}, fd \in BOOLEAN :
          /\ first # "meta" => (payload = <<>> /\ csize = 1 /\ cend = "eof" /\ ~fd)
          /\ Len(payload) <= 1 => csize = 1
          /\ get.pc = "idle" /\ cont.pc = "idle"
          /\ nput < MaxPuts
          /\ PutBegin(s, first, inst, hash, payload, Len(payload), csize, nsent, cend, fd)
    \/ \E s \in PutIds : PutRecvFirst(s)
    \/ \E s \in PutIds : PutNewWriterLastAccessed(s)
    \/ \E s \in PutIds : PutNewWriterStoredAt(s)
    \/ \E s \in PutIds : PutGoFirst(s)
    \/ \E s \in PutIds : PutGoRecv(s)
    \/ \E s \in PutIds : PutCancel(s)
    \/ \E s \in PutIds, wfail \in BOOLEAN : PutCopy(s, wfail)
    \/ \E s \in PutIds : PutCopyFailed(s)
    \/ \E s \in PutIds : PutWaitErr(s)
    \/ \E s \in PutIds, sfail \in BOOLEAN : PutRespond(s, sfail)
    \/ \E inst \in Instances, hash \in Hashes, hasDigest \in BOOLEAN, flt \in BackendFaultsGet :
          /\ PutQuiet /\ get.pc = "idle" /\ cont.pc = "idle"
          /\ GetCall(inst, hash, hasDigest, flt)
    \/ \E n \in 1..MaxLen, rfail \in BOOLEAN, sfail \in BOOLEAN : GetStream(n, rfail, sfail)
    \/ \E inst \in Instances, ds \in DigestLists :
          /\ PutQuiet /\ get.pc = "idle" /\ cont.pc = "idle"
          /\ ContBegin(inst, ds)
    \/ \E flt \in BackendFaultsGet, transient \in BOOLEAN : ContProbe(flt, transient)
    \/ ContFinish
    \/ \E inst \in Instances, hash \in Hashes, dfail \in BOOLEAN : AdminDelete(inst, hash, dfail)
    \/ \E s \in PutIds : PutForget(s)
    \/ GetForget
    \/ ContForget

Spec == Init /\ [][Next]_vars

----------------------------------------------------------------------------
(* Properties of the data plane *)

PutName(s) == ObjectName(put[s].inst, put[s].hash)

\* C1: a Put whose stream failed or was cancelled before end-of-stream (the
\* goroutine's Recv returned a non-EOF error) leaves no object under its
\* (instance, digest), when none was there before
C1_NoPartialObject ==
    \A s \in PutIds :
        (put[s].hpc = "done" /\ put[s].errChan = "err" /\ ~put[s].prior)
            => (put[s].status = "fault" \/ ~Exists(PutName(s)))

GetBytes == Concat([i \in 1..Len(get.sent) |-> get.sent[i].data])

\* C3: a Get that follows a successful Put of the same (instance, digest)
\* streams chunks whose concatenation is the payload that was put, and every
\* chunk reports the payload's length as the entry size
C3_RoundTrip ==
    (get.pc = "done" /\ get.status = "OK" /\ get.follows)
        => /\ GetBytes = get.expect
           /\ \A i \in 1..Len(get.sent) : /\ get.sent[i].size = Len(get.expect)
                                          /\ get.sent[i].hash = get.hash

C3_Witness ==
    /\ get.pc = "done" /\ get.status = "OK" /\ get.follows
    /\ Len(get.sent) >= 2
    /\ Len(get.expect) = MaxLen

\* C4: a Put whose bytes, streamed to the end, hash to another value than the
\* declared digest.hash does not succeed and commits nothing
C4_DigestEnforced ==
    \A s \in PutIds :
        (put[s].hpc = "done" /\ put[s].errChan = "nil" /\ Sha256(put[s].payload) # put[s].hash)
            => (put[s].status = "fault" \/ (put[s].status # "OK" /\ ~put[s].committed))

\* C9: a Get of an (instance, digest) never put completely (or deleted since)
\* returns NotFound, and Contains reports exists = false for it
C9_MissBeforePut ==
    /\ (get.pc # "idle" /\ get.expectMiss /\ get.status \notin {"InvalidArgument", "fault"})
          => (get.pc = "done" /\ get.status = "NotFound")
    /\ (Len(cont.results) > 0 /\ cont.expectMiss)
          => ~cont.results[Len(cont.results)].exists

\* C10: Contains answers one result per digest, in the order of the request,
\* and each answer is exists = true exactly when a Get meeting the same
\* backend outcome would not return NotFound; an object that is there is
\* reported unless the backend failed, an absent one never
C10_ContainsMatchesGet ==
    /\ Len(cont.results) <= Len(cont.digests)
    /\ \A k \in 1..Len(cont.results) : cont.results[k].hash = cont.digests[k]
    /\ (cont.pc = "done" /\ cont.status = "OK") => Len(cont.results) = Len(cont.digests)
    /\ Len(cont.results) > 0 =>
          LET last == cont.results[Len(cont.results)] IN
          /\ last.exists <=> (GetStatus(cont.err) # "NotFound")
          /\ (cont.present /\ cont.err \notin {"attrs", "reader"}) => last.exists
          /\ ~cont.present => ~last.exists

C10_Witness ==
    /\ cont.pc = "done" /\ cont.status = "OK"
    /\ Len(cont.results) = 2
    /\ cont.results[1].exists /\ ~cont.results[2].exists
    /\ cont.results[1].hash # cont.results[2].hash

\* C12: a Contains call in which the lookup of some digest failed with a
\* transient backend error does not return OK
C12_TransientFailsCall ==
    (cont.pc = "done" /\ cont.transient) => cont.status # "OK"

\* C13: a Get answers NotFound only when the entry is absent, and answers
\* Internal when the stat or the opening of the reader failed
C13_GetErrorMapping ==
    (get.pc = "done" /\ get.status # "fault") =>
        /\ get.status = "NotFound" => get.err = "miss"
        /\ get.err \in {"attrs", "reader"} => get.status = "Internal"

\* C15: a Put whose first message has no metadata, or metadata without a
\* digest, ends at the check of that message: it commits no object, and the
\* handler, when it returns, returns InvalidArgument
C15_NoMetadataRejected ==
    \A s \in PutIds :
        (put[s].first \in {"nometa", "nodigest"} /\ put[s].hpc # "idle") =>
            /\ put[s].hpc \in {"recvFirst", "done"}
            /\ ~put[s].committed
            /\ (put[s].hpc = "done" /\ srvMetrics) => put[s].status = "InvalidArgument"

C15_Witness ==
    \E s \in PutIds :
        /\ put[s].hpc = "done" /\ put[s].first = "nodigest"
        /\ put[s].status = "InvalidArgument" /\ store = <<>>

\* C22: on the server NewCacheServer builds (no metrics collector set), no
\* handler invocation faults: every Get, Put and Contains ends with a
\* response or a status, and the process stays up
C22_NoHandlerFaults ==
    ~srvMetrics =>
        /\ ~crashed
        /\ get.status # "fault"
        /\ cont.status # "fault"
        /\ \A s \in PutIds : put[s].status # "fault"

\* C25: every Get and Put that returns has incremented the request counter
\* once, under an outcome that is one of success, invalid_request,
\* not_found, stream_error and storage_error; a Get that misses is counted
\* as not_found
C25_OutcomeLabels ==
    LET Outcomes == {"success", "invalid_request", "not_found", "stream_error",
                     "storage_error"}
    IN  /\ (get.pc = "done" /\ get.status # "fault") =>
              /\ get.label \in Outcomes
              /\ get.err = "miss" => get.label = "not_found"
        /\ \A s \in PutIds :
              (put[s].hpc = "done" /\ put[s].status # "fault") => put[s].label \in Outcomes

\* C36: a Get whose object cache.Service.Delete removed while the handler
\* was streaming it ends with Internal, or ends with OK after sending all the
\* bytes of the object it opened; it does not end with OK on a strict prefix
C36_NoSilentTruncation ==
    (get.pc = "done" /\ get.delMid /\ get.status # "fault")
        => \/ get.status = "Internal"
           \/ get.status = "OK" /\ GetBytes = get.data

\* such a Get that sent the whole of a payload of the greatest length in
\* two chunks or more, the object being gone from the bucket
C36_Witness ==
    /\ get.pc = "done" /\ get.delMid /\ get.status = "OK"
    /\ GetBytes = get.data /\ Len(get.data) = MaxLen /\ Len(get.sent) >= 2
    /\ ~Exists(ObjectName(get.inst, get.hash))

\* C37: when a handler has returned, every reader cache.Get opened for it is
\* closed: none is open after a Get, and none after a Contains, whatever the
\* number of its digests that exist
C37_ReadersReleased ==
    /\ get.pc = "done" => ~get.reader
    /\ (cont.pc = "done" /\ cont.status # "fault") => cont.readers = 0

\* C28: when the Put handler has returned, its receive goroutine is not
\* blocked in a write to the pipe (nothing reads or closes the pipe after the
\* return, so a goroutine blocked there then never terminates)
C28_GoroutineNotLeftBlocked ==
    \A s \in PutIds :
        (put[s].hpc = "done" /\ put[s].status # "fault") => put[s].gpc # "writing"

----------------------------------------------------------------------------
(* security.InputValidator: the checks on a hash and on an instance name.  *)
(* No handler of CacheServer calls them.                                   *)

Digits == {"0", "1", "2", "3", "4", "5", "6", "7", "8", "9"}
LowerLetters ==
    {"a", "b", "c", "d", "e", "f", "g", "h", "i", "j", "k", "l", "m",
     "n", "o", "p", "q", "r", "s", "t", "u", "v", "w", "x", "y", "z"}
UpperLetters ==
    {"A", "B", "C", "D", "E", "F", "G", "H", "I", "J", "K", "L", "M",
     "N", "O", "P", "Q", "R", "S", "T", "U", "V", "W", "X", "Y", "Z"}
HexChars == Digits \cup {"a", "b", "c", "d", "e", "f", "A", "B", "C", "D", "E", "F"}
Sha256HexLen == 64

\* strings.Contains(s, p)
ContainsStr(s, p) ==
    \E i \in 1..(Len(s) - Len(p) + 1) : SubSeq(s, i, i + Len(p) - 1) = p

\* ValidateArtifactHash: ^[a-fA-F0-9]{64}$
ValidateArtifactHash(hash) ==
    /\ hash # <<>>
    /\ Len(hash) = Sha256HexLen
    /\ \A i \in 1..Len(hash) : hash[i] \in HexChars

\* ValidateInstanceName: ^[a-zA-Z0-9\-_/]+$ and no ".."
ValidateInstanceName(instanceName) ==
    /\ instanceName # <<>>
    /\ \A i \in 1..Len(instanceName) :
          instanceName[i] \in LowerLetters \cup UpperLetters \cup Digits \cup {"-", "_", "/"}
    /\ ~ContainsStr(instanceName, <<".", ".">>)

\* C14: a Get or a Put whose hash or instance name the validator refuses goes
\* no further than the check of its request and ends with InvalidArgument
C14_InputValidated ==
    /\ (get.pc # "idle" /\ ~(ValidateArtifactHash(get.hash) /\ ValidateInstanceName(get.inst)))
          => (get.pc = "done" /\ get.status \in {"InvalidArgument", "fault"})
    /\ \A s \in PutIds :
          (put[s].hpc \notin {"idle", "recvFirst"}
             /\ ~(ValidateArtifactHash(put[s].hash) /\ ValidateInstanceName(put[s].inst)))
          => (put[s].hpc = "done" /\ put[s].status \in {"InvalidArgument", "fault"})

----------------------------------------------------------------------------
(* pruning.Service: the selection *)

SevenDays == 7 * Day
ThreeDays == 3 * Day
LargeFileSize == 100 * 1024 * 1024

\* shouldDelete(entry, now)
shouldDelete(entry, t) ==
    LET age == t - entry.lastAccessed IN
    IF age > SevenDays THEN TRUE
    ELSE IF entry.size > LargeFileSize /\ age > ThreeDays THEN TRUE
    ELSE IF age < Day THEN FALSE
    ELSE TRUE

\* retentionCutoff := now.AddDate(0, 0, -RetentionDays)
RetentionCutoff(t, days) == t - days * Day

RECURSIVE FirstPassStopsWhenEnough(_, _, _, _, _)
FirstPassStopsWhenEnough(entries, cutoff, toDelete, cands, btr) ==
    IF entries = <<>> THEN [toDelete |-> toDelete, cands |-> cands, btr |-> btr]
    ELSE LET e == Head(entries) IN
         IF e.lastAccessed < cutoff /\ btr > 0
         THEN FirstPassStopsWhenEnough(Tail(entries), cutoff, Append(toDelete, e), cands,
                                       btr - e.size)
         ELSE FirstPassStopsWhenEnough(Tail(entries), cutoff, toDelete, Append(cands, e), btr)

RECURSIVE FirstPass(_, _, _, _, _)
\* first loop: entries last accessed before the cutoff are selected, the
\* others become candidates
FirstPass(entries, cutoff, toDelete, cands, btr) ==
    IF entries = <<>> THEN [toDelete |-> toDelete, cands |-> cands, btr |-> btr]
    ELSE LET e == Head(entries) IN
         IF e.lastAccessed < cutoff
         THEN FirstPass(Tail(entries), cutoff, Append(toDelete, e), cands, btr - e.size)
         ELSE FirstPass(Tail(entries), cutoff, toDelete, Append(cands, e), btr)

RemoveInPlaceKeeps(arr, clen, i) == arr

\* candidates = append(candidates[:i], candidates[i+1:]...) on the shared
\* backing array arr (i counted from 0, clen = len(candidates)): the
\* elements after i move one place down, the last place keeps its old value
RemoveInPlace(arr, clen, i) ==
    [j \in 1..Len(arr) |-> IF j >= i + 1 /\ j <= clen - 1 THEN arr[j + 1] ELSE arr[j]]

RECURSIVE LruLoop(_, _, _, _, _, _)
\* second loop: for i, entry := range candidates.  The range runs over the
\* length the slice had when the loop began and reads the backing array,
\* while the body shortens candidates.  candidates[i+1:] faults when
\* i+1 > len(candidates).
LruLoop(arr, clen, i, toDelete, btr, t) ==
    IF i >= Len(arr) \/ btr <= 0
    THEN [panic |-> FALSE, arr |-> arr, clen |-> clen, toDelete |-> toDelete, btr |-> btr]
    ELSE LET e == arr[i + 1] IN
         IF shouldDelete(e, t)
         THEN IF i + 1 > clen
              THEN [panic |-> TRUE, arr |-> arr, clen |-> clen,
                    toDelete |-> Append(toDelete, e), btr |-> btr - e.size]
              ELSE LruLoop(RemoveInPlace(arr, clen, i), clen - 1, i + 1,
                           Append(toDelete, e), btr - e.size, t)
         ELSE LruLoop(arr, clen, i + 1, toDelete, btr, t)

RECURSIVE RestLoop(_, _, _)
\* third loop: the candidates that are left, in order, until enough is selected
RestLoop(cands, toDelete, btr) ==
    IF cands = <<>> \/ btr <= 0 THEN [toDelete |-> toDelete, btr |-> btr]
    ELSE RestLoop(Tail(cands), Append(toDelete, Head(cands)), btr - Head(cands).size)

Perms(n) == {p \in [1..n -> 1..n] : \A i, j \in 1..n : i # j => p[i] # p[j]}

\* the outcomes of sort.Slice by LastAccessed: every ordering of the
\* candidates with no later element before an earlier one (the sort is not
\* stable)
SortedOrders(cands) ==
    {[i \in 1..Len(cands) |-> cands[p[i]]] : p \in
        {q \in Perms(Len(cands)) :
            \A i, j \in 1..Len(cands) :
                i < j => ~(cands[q[j]].lastAccessed < cands[q[i]].lastAccessed)}}

\* selectEntriesForDeletion(entries, bytesToRemove), with the order the sort
\* produced
selectEntriesForDeletion(entries, bytesToRemove, t, days, sorted) ==
    LET p1 == FirstPass(entries, RetentionCutoff(t, days), <<>>, <<>>, bytesToRemove) IN
    IF p1.btr > 0 /\ Len(p1.cands) > 0
    THEN LET p2 == LruLoop(sorted, Len(sorted), 0, p1.toDelete, p1.btr, t) IN
         IF p2.panic THEN [panic |-> TRUE, toDelete |-> p2.toDelete, btr |-> p2.btr]
         ELSE LET p3 == RestLoop(SubSeq(p2.arr, 1, p2.clen), p2.toDelete, p2.btr) IN
              [panic |-> FALSE, toDelete |-> p3.toDelete, btr |-> p3.btr]
    ELSE [panic |-> FALSE, toDelete |-> p1.toDelete, btr |-> p1.btr]

\* the candidates the first loop leaves, which the sort then orders
CandidatesOf(entries, t, days) ==
    FirstPass(entries, RetentionCutoff(t, days), <<>>, <<>>, 0).cands

----------------------------------------------------------------------------
(* cache.Service.List and GetTotalSize *)

\* the byte values of the characters object names are made of
CharCode(c) ==
    CASE c = "/" -> 47 [] c = "1" -> 49 [] c = "2" -> 50 [] c = "_" -> 95
      [] c = "a" -> 97 [] c = "b" -> 98 [] c = "c" -> 99 [] c = "e" -> 101
      [] c = "f" -> 102 [] c = "h" -> 104 [] OTHER -> 0

RECURSIVE LexLess(_, _)
LexLess(a, b) ==
    IF b = <<>> THEN FALSE
    ELSE IF a = <<>> THEN TRUE
    ELSE IF CharCode(Head(a)) # CharCode(Head(b)) THEN CharCode(Head(a)) < CharCode(Head(b))
    ELSE LexLess(Tail(a), Tail(b))

RECURSIVE InNameOrder(_)
\* bucket.Objects iterates in the order of the object names
InNameOrder(names) ==
    IF names = {} THEN <<>>
    ELSE LET m == CHOOSE x \in names : \A y \in names \ {x} : LexLess(x, y) IN
         <<m>> \o InNameOrder(names \ {m})

\* a metadata timestamp that is not set
NoTime == -1

\* the CacheEntry List builds from an object's attributes: Key is the
\* cache_key metadata, or the object's name when there is none; LastAccessed
\* is the last_accessed metadata, or attrs.Updated when there is none
EntryOf(st, name) ==
    [key |-> IF st[name].meta.cache_key = <<>> THEN name ELSE st[name].meta.cache_key,
     size |-> st[name].size,
     lastAccessed |-> IF st[name].meta.last_accessed = NoTime THEN st[name].updated
                      ELSE st[name].meta.last_accessed]

SvcList(st) ==
    LET names == InNameOrder(DOMAIN st) IN
    [i \in 1..Len(names) |-> EntryOf(st, names[i])]

RECURSIVE SumSizes(_)
SumSizes(entries) ==
    IF entries = <<>> THEN 0 ELSE Head(entries).size + SumSizes(Tail(entries))

GetTotalSize(st) == SumSizes(SvcList(st))

----------------------------------------------------------------------------
(* pruning.Service.RunPruning, as Start runs it: at once and on every tick *)

PrnIdle ==
    [pc |-> "idle", total |-> 0, btr |-> 0, target |-> 0, entries |-> <<>>,
     toDelete |-> <<>>, idx |-> 0, deletedCount |-> 0, deletedSize |-> 0,
     ended |-> "none", enough |-> FALSE, delFailed |-> FALSE,
     last |-> <<>>, ntouch |-> 0, miscounted |-> FALSE]

\* targetSize := int64(float64(MaxCacheSize) * 0.8)
TargetSize(max) == (4 * max) \div 5

\* the bytes the listed entries hold that were last accessed a day ago or earlier
EligibleBytes(entries, t) ==
    SumSizes(SelectSeq(entries, LAMBDA e : t - e.lastAccessed >= Day))

WithinLimitsBelowTarget(total, max) == total <= TargetSize(max)

\* totalSize <= s.config.MaxCacheSize: no pruning needed
WithinLimits(total, max) == total <= max

\* GetTotalSize and the comparison with MaxCacheSize
PrnMeasure(mfail) ==
    LET total == GetTotalSize(store)
        fresh == [PrnIdle EXCEPT !.ntouch = prn.ntouch]
    IN
    /\ ~crashed
    /\ prn.pc = "idle"
    /\ prn' = IF mfail THEN [fresh EXCEPT !.ended = "error"]
              ELSE IF WithinLimits(total, cfg.MaxCacheSize)
                   THEN [fresh EXCEPT !.total = total, !.ended = "noop"]
              ELSE [fresh EXCEPT !.pc = "list", !.total = total,
                                 !.target = TargetSize(cfg.MaxCacheSize),
                                 !.btr = total - TargetSize(cfg.MaxCacheSize)]
    /\ UNCHANGED <<store, now, srvMetrics, crashed, put, get, cont, cfg, kd, okKeys, nput, ar, loop, sd, conf, gc>>

\* s.cache.List(ctx, "")
PrnList(lfail) ==
    /\ ~crashed
    /\ prn.pc = "list"
    /\ prn' = IF lfail THEN [prn EXCEPT !.pc = "idle", !.ended = "error"]
              ELSE [prn EXCEPT !.pc = "select", !.entries = SvcList(store),
                               !.enough = EligibleBytes(SvcList(store), now) >= prn.btr]
    /\ UNCHANGED <<store, now, srvMetrics, crashed, put, get, cont, cfg, kd, okKeys, nput, ar, loop, sd, conf, gc>>

\* selectEntriesForDeletion; a fault in it is not recovered and ends the process
PrnSelect(sorted) ==
    LET res == selectEntriesForDeletion(prn.entries, prn.btr, now, cfg.RetentionDays, sorted) IN
    /\ ~crashed
    /\ prn.pc = "select"
    /\ sorted \in SortedOrders(CandidatesOf(prn.entries, now, cfg.RetentionDays))
    /\ IF res.panic
       THEN /\ crashed' = TRUE
            /\ prn' = [prn EXCEPT !.pc = "panic", !.ended = "panic", !.entries = <<>>]
       ELSE /\ crashed' = crashed
            /\ prn' = IF res.toDelete = <<>>
                      THEN [prn EXCEPT !.pc = "idle", !.ended = "done", !.entries = <<>>]
                      ELSE [prn EXCEPT !.pc = "delete", !.toDelete = res.toDelete, !.idx = 1]
    /\ UNCHANGED <<store, now, srvMetrics, put, get, cont, cfg, kd, okKeys, nput, ar, loop, sd, conf, gc>>

\* one turn of the delete loop; after the last one the cycle reports and ends
\* (last records whether the entry was a day old as listed and as stored when
\* its object went)
PrnDelete(dfail) ==
    LET e    == prn.toDelete[prn.idx]
        name == sanitizeKey(e.key)
        res  == SvcDelete(store, e.key, dfail)
        gone == name \in DOMAIN store /\ name \notin DOMAIN res.st
        \* history: the entry is counted as deleted while an object that
        \* lists under its key is still in the bucket
        still == \E n \in DOMAIN res.st : EntryOf(res.st, n).key = e.key
        p1   == IF res.err THEN [prn EXCEPT !.delFailed = TRUE]
                ELSE [prn EXCEPT !.deletedCount = @ + 1, !.deletedSize = @ + e.size,
                                 !.miscounted = @ \/ still]
        p2   == IF gone
                THEN [p1 EXCEPT !.last = [listed |-> now - e.lastAccessed >= Day,
                                          stored |-> now - store[name].meta.last_accessed >= Day]]
                ELSE p1
    IN
    /\ ~crashed
    /\ prn.pc = "delete"
    /\ store' = res.st
    /\ okKeys' = okKeys \ KeysGone(store, res.st)
    /\ prn' = IF prn.idx = Len(prn.toDelete)
              THEN [p2 EXCEPT !.pc = "idle", !.ended = "done", !.idx = 0,
                              !.entries = <<>>, !.toDelete = <<>>]
              ELSE [p2 EXCEPT !.idx = @ + 1]
    /\ UNCHANGED <<now, srvMetrics, crashed, put, get, cont, cfg, kd, nput, ar, loop, sd, conf, gc>>

\* a read of one key meanwhile: cache.Service.Get refreshes last_accessed
Touch(inst, hash) ==
    LET res == SvcGet(CacheKey(inst, hash), "none") IN
    /\ ~crashed
    /\ prn.ntouch < MaxTouches
    /\ res.err = "none"
    /\ store' = res.st
    /\ prn' = [prn EXCEPT !.ntouch = @ + 1]
    /\ UNCHANGED <<now, srvMetrics, crashed, put, get, cont, cfg, kd, okKeys, nput, ar, loop, sd, conf, gc>>

----------------------------------------------------------------------------
(* The pruner at work on a bucket earlier Puts have filled *)

IC == <<"c">>
PruneKeys == {<<IA, H1>>, <<IA, H2>>, <<IC, H1>>}
PruneSizes == {1, LargeFileSize + 1}
PruneAges == {Hour, Day, 4 * Day, 8 * Day, 31 * Day}
PruneNow == 40 * Day
PruneConfigs ==
    [MaxCacheSize : {2, LargeFileSize + 2}, RetentionDays : {1, 30}]

\* an object a Put committed at time t (its bytes are left out, its size kept)
StoredObject(key, size, t) ==
    [data |-> <<>>, size |-> size,
     meta |-> [cache_key |-> CacheKey(key[1], key[2]),
               last_accessed |-> FormatRFC3339(t), stored_at |-> FormatRFC3339(t)],
     updated |-> t]

Buckets ==
    UNION {
      {[n \in {ObjectName(k[1], k[2]) : k \in ks} |->
          LET k == CHOOSE k \in ks : ObjectName(k[1], k[2]) = n IN
          StoredObject(k, sz[k], PruneNow - ag[k])] :
        sz \in [ks -> PruneSizes], ag \in [ks -> PruneAges]} :
      ks \in SUBSET PruneKeys}

InitPrune ==
    /\ store \in Buckets
    /\ now = PruneNow
    /\ srvMetrics = TRUE
    /\ crashed = FALSE
    /\ put = [s \in PutIds |-> PutIdle]
    /\ get = GetIdle
    /\ cont = ContIdle
    /\ prn = PrnIdle
    /\ cfg \in PruneConfigs
    /\ kd = KdIdle
    /\ okKeys = {k \in PruneKeys : ObjectName(k[1], k[2]) \in DOMAIN store}
    /\ nput = 0
    /\ ar = ArIdle
    /\ loop = <<>>
    /\ sd = <<>>
    /\ conf = <<>>
    /\ gc = <<>>

NextPrune ==
    \/ \E mfail \in BOOLEAN : PrnMeasure(mfail)
    \/ \E lfail \in BOOLEAN : PrnList(lfail)
    \/ \E sorted \in SortedOrders(CandidatesOf(prn.entries, now, cfg.RetentionDays)) :
          PrnSelect(sorted)
    \/ \E dfail \in BOOLEAN : PrnDelete(dfail)
    \/ \E k \in PruneKeys : Touch(k[1], k[2])

SpecPrune == InitPrune /\ [][NextPrune]_vars

\* C2: an entry last accessed less than 24 hours before the cycle's time is
\* never among the entries a pruning cycle selected for deletion
C2_FloorRespected ==
    prn.pc = "delete" =>
        \A i \in 1..Len(prn.toDelete) : now - prn.toDelete[i].lastAccessed >= Day

\* C6: a cycle that found the cache over its maximum, with at least
\* bytesToRemove bytes in entries a day old or older, no failed delete and
\* nothing written meanwhile, leaves the total at or below 0.8 * MaxCacheSize
C6_CycleConverges ==
    (prn.ended \in {"done", "panic"} /\ prn.enough /\ ~prn.delFailed)
        => 5 * GetTotalSize(store) <= 4 * cfg.MaxCacheSize

\* C7: a pruning cycle that found the cache over its maximum ends without a
\* fault, whatever the order and ages of the candidates
C7_CycleTerminates == prn.pc # "panic"

\* C8: an entry the cycle selected as a day old or older and then deleted
\* has, at the moment of its deletion, a stored last_accessed a day old or older
C8_NoStaleDelete ==
    prn.last # <<>> =>
        (prn.last.listed => prn.last.stored)

\* C29: among the entries the first pass left (not older than the retention
\* period), whenever the cycle selects one that is a day old or older, it
\* also selects every other one that is a day old or older and was last
\* accessed strictly earlier
C29_OldestFirst ==
    prn.pc = "delete" =>
        LET cutoff == RetentionCutoff(now, cfg.RetentionDays)
            Remaining(e) == ~(e.lastAccessed < cutoff)
            Eligible(e) == now - e.lastAccessed >= Day
            Selected(e) == \E i \in 1..Len(prn.toDelete) : prn.toDelete[i].key = e.key
        IN  \A i \in 1..Len(prn.toDelete), j \in 1..Len(prn.entries) :
                LET e == prn.toDelete[i]
                    f == prn.entries[j]
                IN  (/\ Remaining(e) /\ Eligible(e)
                     /\ Remaining(f) /\ Eligible(f)
                     /\ f.lastAccessed < e.lastAccessed)
                        => Selected(f)

\* C33: for the entries a cycle listed, its time and its bytesToRemove, the
\* set of entries selectEntriesForDeletion returns is the same whichever of
\* its possible outcomes the sort of the candidates has (candidates with the
\* same last_accessed have one fixed order); stated for the cycles whose
\* entries are all a day old or older, and for the outcomes without a fault
C33_SelectionDetermined ==
    (/\ prn.pc = "select"
     /\ \A i \in 1..Len(prn.entries) : now - prn.entries[i].lastAccessed >= Day) =>
        LET orders == SortedOrders(CandidatesOf(prn.entries, now, cfg.RetentionDays))
            Sel(o) == selectEntriesForDeletion(prn.entries, prn.btr, now, cfg.RetentionDays, o)
            Keys(r) == {r.toDelete[i].key : i \in 1..Len(r.toDelete)}
        IN  \A o1, o2 \in orders :
                (~Sel(o1).panic /\ ~Sel(o2).panic) => Keys(Sel(o1)) = Keys(Sel(o2))

\* C34: in a cycle that found the cache over its maximum, the first pass
\* selects exactly the listed entries last accessed before now - RetentionDays,
\* in the order listed and however few bytes are left to remove, takes the
\* size of each from bytesToRemove, and leaves all the others as candidates;
\* every one of them is in the list the cycle goes on to delete
C34_RetentionSweep ==
    LET cutoff == RetentionCutoff(now, cfg.RetentionDays)
        Old(e) == e.lastAccessed < cutoff
        Young(e) == ~Old(e)
        p1 == FirstPass(prn.entries, cutoff, <<>>, <<>>, prn.btr)
    IN
    /\ prn.pc = "select" =>
          /\ p1.toDelete = SelectSeq(prn.entries, Old)
          /\ p1.cands = SelectSeq(prn.entries, Young)
          /\ p1.btr = prn.btr - SumSizes(SelectSeq(prn.entries, Old))
    /\ prn.pc = "delete" =>
          /\ Len(prn.toDelete) >= Len(p1.toDelete)
          /\ SubSeq(prn.toDelete, 1, Len(p1.toDelete)) = SelectSeq(prn.entries, Old)

\* a cycle about to delete two entries older than the retention period that
\* hold more bytes than it had to remove, while an entry last accessed
\* exactly at the cutoff was left to the second phase
C34_Witness ==
    LET cutoff == RetentionCutoff(now, cfg.RetentionDays)
        old == SelectSeq(prn.entries, LAMBDA e : e.lastAccessed < cutoff)
    IN
    /\ prn.pc = "delete"
    /\ Len(old) >= 2
    /\ SumSizes(old) > prn.btr
    /\ \E i \in 1..Len(prn.entries) : prn.entries[i].lastAccessed = cutoff

\* C39: the list selectEntriesForDeletion returns holds no entry twice, and
\* bytesToRemove has gone down by the size of each entry in it once; the
\* delete loop then counts each entry of the list at most once, in
\* deletedCount and in deletedSize
C39_NoDoubleSelection ==
    LET Distinct(l) == \A i, j \in 1..Len(l) : i # j => l[i].key # l[j].key IN
    /\ prn.pc = "select" =>
          \A o \in SortedOrders(CandidatesOf(prn.entries, now, cfg.RetentionDays)) :
              LET r == selectEntriesForDeletion(prn.entries, prn.btr, now,
                                                cfg.RetentionDays, o)
              IN  ~r.panic => /\ Distinct(r.toDelete)
                              /\ r.btr = prn.btr - SumSizes(r.toDelete)
    /\ prn.pc = "delete" =>
          /\ Distinct(prn.toDelete)
          /\ prn.deletedCount <= prn.idx - 1
          /\ prn.deletedSize <= SumSizes(SubSeq(prn.toDelete, 1, prn.idx - 1))

\* a cycle in its delete loop, one entry deleted, over a list that holds an
\* entry of the first pass and an entry of the second phase
C39_Witness ==
    LET cutoff == RetentionCutoff(now, cfg.RetentionDays) IN
    /\ prn.pc = "delete" /\ prn.deletedCount >= 1
    /\ \E i, j \in 1..Len(prn.toDelete) :
          /\ prn.toDelete[i].lastAccessed < cutoff
          /\ ~(prn.toDelete[j].lastAccessed < cutoff)

\* C20: a cycle that measures a total of at most MaxCacheSize ends at once as
\* a no-op with the bucket untouched, and objects only ever disappear in the
\* delete loop of a cycle that measured more than MaxCacheSize
C20_UnderBudgetNoOp ==
    [][/\ (/\ prn.pc = "idle" /\ prn' # prn /\ prn'.ntouch = prn.ntouch
           /\ prn'.ended # "error"
           /\ GetTotalSize(store) <= cfg.MaxCacheSize)
          => (/\ prn'.pc = "idle" /\ prn'.ended = "noop"
              /\ prn'.toDelete = <<>> /\ prn'.deletedCount = 0
              /\ store' = store)
       /\ (DOMAIN store' # DOMAIN store)
          => (prn.pc = "delete" /\ prn.total > cfg.MaxCacheSize)]_vars

\* a no-op cycle over a bucket that holds an entry older than the retention period
C20_Witness ==
    /\ prn.ended = "noop" /\ prn.pc = "idle"
    /\ \E n \in DOMAIN store :
          store[n].meta.last_accessed < RetentionCutoff(now, cfg.RetentionDays)

----------------------------------------------------------------------------
(* The pruner on a bucket that also holds an object written without the    *)
(* cache_key and last_accessed metadata (not by cache.Service.Put)         *)

BareName == ObjectName(IC, H1)

\* an object of the given size, last written at time t, with no user metadata
BareObject(size, t) ==
    [data |-> <<>>, size |-> size,
     meta |-> [cache_key |-> <<>>, last_accessed |-> NoTime, stored_at |-> NoTime],
     updated |-> t]

BareBuckets ==
    {[n \in {BareName} \cup {ObjectName(k[1], k[2]) : k \in ks} |->
        IF n = BareName THEN BareObject(bsz, PruneNow - bag)
        ELSE LET k == CHOOSE k \in ks : ObjectName(k[1], k[2]) = n IN
             StoredObject(k, sz[k], PruneNow - ag[k])] :
      ks \in SUBSET {<<IA, H1>>}, bsz \in PruneSizes, bag \in PruneAges,
      sz \in [{<<IA, H1>>} -> PruneSizes], ag \in [{<<IA, H1>>} -> PruneAges]}

InitPruneBare ==
    /\ store \in BareBuckets
    /\ now = PruneNow
    /\ srvMetrics = TRUE
    /\ crashed = FALSE
    /\ put = [s \in PutIds |-> PutIdle]
    /\ get = GetIdle
    /\ cont = ContIdle
    /\ prn = PrnIdle
    /\ cfg \in PruneConfigs
    /\ kd = KdIdle
    /\ okKeys = {k \in {<<IA, H1>>} : ObjectName(k[1], k[2]) \in DOMAIN store}
    /\ nput = 0
    /\ ar = ArIdle
    /\ loop = <<>>
    /\ sd = <<>>
    /\ conf = <<>>
    /\ gc = <<>>

SpecPruneBare == InitPruneBare /\ [][NextPrune]_vars

\* C30: an entry the cycle counts as deleted has no object left in the
\* bucket: Delete(entry.Key) removed the object List built the entry from,
\* also when the entry's Key is the object's name
C30_CountedMeansGone == ~prn.miscounted

----------------------------------------------------------------------------
(* The data plane with the clock running: one key, one RPC at a time, the  *)
(* clock free to tick between any two steps.                               *)

\* time passes
Tick ==
    /\ ~crashed
    /\ now < MaxTime
    /\ now' = now + 1
    /\ UNCHANGED <<store, srvMetrics, crashed, put, get, cont, prn, cfg, kd, okKeys, nput, ar, loop, sd, conf, gc>>

InitTime ==
    /\ store = <<>>
    /\ now = 0
    /\ srvMetrics = TRUE
    /\ crashed = FALSE
    /\ put = [s \in PutIds |-> PutIdle]
    /\ get = GetIdle
    /\ cont = ContIdle
    /\ prn = <<>>
    /\ cfg = <<>>
    /\ kd = KdIdle
    /\ okKeys = {}
    /\ nput = 0
    /\ ar = ArIdle
    /\ loop = <<>>
    /\ sd = <<>>
    /\ conf = <<>>
    /\ gc = <<>>

NextTime ==
    \/ Tick
    \/ \E s \in {1}, payload \in {<<>>, Pattern(1)}, dsize \in 0..MaxLen :
          /\ get.pc = "idle" /\ cont.pc = "idle"
          /\ nput < MaxPuts
          /\ PutBegin(s, "meta", IA, H1, payload, dsize, 1, Len(payload), "eof", FALSE)
    \/ \E s \in PutIds : PutRecvFirst(s)
    \/ \E s \in PutIds : PutNewWriterLastAccessed(s)
    \/ \E s \in PutIds : PutNewWriterStoredAt(s)
    \/ \E s \in PutIds : PutGoFirst(s)
    \/ \E s \in PutIds : PutGoRecv(s)
    \/ \E s \in PutIds : PutCopy(s, FALSE)
    \/ \E s \in PutIds : PutWaitErr(s)
    \/ \E s \in PutIds : PutRespond(s, FALSE)
    \/ \E flt \in {"none", "update"} :
          /\ PutQuiet /\ get.pc = "idle" /\ cont.pc = "idle"
          /\ GetCall(IA, H1, TRUE, flt)
    \/ GetStream(1, FALSE, FALSE)
    \/ /\ PutQuiet /\ get.pc = "idle" /\ cont.pc = "idle"
       /\ ContBegin(IA, <<H1>>)
    \/ ContProbe("none", FALSE)
    \/ ContFinish
    \/ GetForget
    \/ ContForget

SpecTime == InitTime /\ [][NextTime]_vars

\* C11: an iteration of the Contains loop leaves the bucket as it was: no
\* object's bytes, attributes or metadata (last_accessed included) change
C11_ContainsLeavesStore ==
    [][(cont.pc = "probe" /\ cont' # cont) => store' = store]_vars

\* C26: a Get whose last_accessed update failed on an existing entry still
\* gets the reader and the entry from the cache service: no error, the
\* object's bytes and size, and the handler's status is OK
C26_UpdateFailureHidden ==
    (get.pc # "idle" /\ get.updFailed) =>
        LET name == ObjectName(get.inst, get.hash) IN
        /\ get.err = "none"
        /\ get.status \in {"none", "OK"}
        /\ Exists(name) /\ get.data = store[name].data /\ get.size = store[name].size

\* a Get that returned OK with the stored bytes although the update failed:
\* the entry's last_accessed is still the one the Put wrote
C26_Witness ==
    /\ get.pc = "done" /\ get.updFailed /\ get.status = "OK"
    /\ GetBytes # <<>> /\ GetBytes = get.expect
    /\ store[ObjectName(get.inst, get.hash)].meta.last_accessed < FormatRFC3339(get.at)

\* C38: the size in the PutResponse of a Put that returned OK is the size of
\* the object the Put committed, whatever digest.size_bytes the client
\* declared
C38_ResponseSize ==
    \A s \in PutIds :
        (put[s].hpc = "done" /\ put[s].status = "OK" /\ Exists(PutName(s)))
            => put[s].respSize = store[PutName(s)].size

\* C17: after a Put returned OK at t0 and a Get of the same key, called at
\* t1 > t0, returned OK, the stored last_accessed of the entry is at least t1
\* (compared at the whole seconds the metadata keeps, which is the weaker
\* reading: the stored text drops the fraction of t1)
C17_TouchOnGet ==
    (/\ get.pc = "done" /\ get.status = "OK"
     /\ \E s \in PutIds : /\ put[s].hpc = "done" /\ put[s].status = "OK"
                          /\ put[s].inst = get.inst /\ put[s].hash = get.hash
                          /\ get.at > put[s].retAt
     /\ Exists(ObjectName(get.inst, get.hash)))
        => store[ObjectName(get.inst, get.hash)].meta.last_accessed >= FormatRFC3339(get.at)

\* C18: every stored entry has last_accessed >= stored_at
C18_AccessedAfterStored ==
    \A n \in DOMAIN store : store[n].meta.last_accessed >= store[n].meta.stored_at

----------------------------------------------------------------------------
(* Repeated Puts of one (instance, digest, bytes), one after another or     *)
(* overlapping: every stream delivers all the bytes; a Put can still fail   *)
(* by cancellation or by a backend fault.                                   *)

NextIdem ==
    \/ \E s \in PutIds, payload \in Payloads, csize \in 1..MaxLen :
          /\ put[s].hpc = "idle"
          /\ \A t \in PutIds : put[t].hpc # "idle" => put[t].payload = payload
          /\ Len(payload) <= 1 => csize = 1
          /\ PutBegin(s, "meta", IA, Sha256(payload), payload, Len(payload), csize,
                      Len(Chunked(payload, csize)), "eof", FALSE)
    \/ \E s \in PutIds : PutRecvFirst(s)
    \/ \E s \in PutIds : PutNewWriterLastAccessed(s)
    \/ \E s \in PutIds : PutNewWriterStoredAt(s)
    \/ \E s \in PutIds : PutGoFirst(s)
    \/ \E s \in PutIds : PutGoRecv(s)
    \/ \E s \in PutIds : PutCancel(s)
    \/ \E s \in PutIds, wfail \in BOOLEAN : PutCopy(s, wfail)
    \/ \E s \in PutIds : PutCopyFailed(s)
    \/ \E s \in PutIds : PutWaitErr(s)
    \/ \E s \in PutIds : PutRespond(s, FALSE)

SpecIdem == InitTime /\ [][NextIdem]_vars

----------------------------------------------------------------------------
(* CacheServer.GetActionResult and UpdateActionResult *)

ArReturn(r, st, lb) ==
    IF srvMetrics
    THEN [r EXCEPT !.pc = "done", !.status = st, !.label = lb]
    ELSE [r EXCEPT !.pc = "done", !.status = "fault"]

\* UpdateActionResult: the digest check, then the success response; the
\* result is not written anywhere
UpdateActionResult(inst, hash, hasDigest) ==
    LET r0 == [ArIdle EXCEPT !.rpc = "update", !.inst = inst, !.hash = hash,
                             !.acked = ar.acked]
    IN
    /\ ~crashed
    /\ ar.pc = "idle"
    /\ ar' = IF ~hasDigest THEN ArReturn(r0, "InvalidArgument", "invalid_request")
             ELSE IF srvMetrics
                  THEN [ArReturn(r0, "OK", "success") EXCEPT !.acked = @ \cup {<<inst, hash>>}]
                  ELSE ArReturn(r0, "OK", "success")
    /\ crashed' = ~srvMetrics
    /\ UNCHANGED <<store, now, srvMetrics, put, get, cont, prn, cfg, kd, okKeys, nput, loop, sd, conf, gc>>

\* GetActionResult: the digest check, then NotFound
GetActionResult(inst, hash, hasDigest) ==
    LET r0 == [ArIdle EXCEPT !.rpc = "get", !.inst = inst, !.hash = hash,
                             !.acked = ar.acked]
    IN
    /\ ~crashed
    /\ ar.pc = "idle"
    /\ ar' = IF ~hasDigest THEN ArReturn(r0, "InvalidArgument", "invalid_request")
             ELSE ArReturn(r0, "NotFound", "not_found")
    /\ crashed' = ~srvMetrics
    /\ UNCHANGED <<store, now, srvMetrics, put, get, cont, prn, cfg, kd, okKeys, nput, loop, sd, conf, gc>>

\* the client is done with the outcome
ArForget ==
    /\ ~crashed
    /\ ar.pc = "done"
    /\ ar' = [ArIdle EXCEPT !.acked = ar.acked]
    /\ UNCHANGED <<store, now, srvMetrics, crashed, put, get, cont, prn, cfg, kd, okKeys, nput, loop, sd, conf, gc>>

NextAR ==
    \/ \E inst \in Instances, hash \in Hashes, hasDigest \in BOOLEAN :
          UpdateActionResult(inst, hash, hasDigest)
    \/ \E inst \in Instances, hash \in Hashes, hasDigest \in BOOLEAN :
          GetActionResult(inst, hash, hasDigest)
    \/ ArForget

SpecAR == Init /\ [][NextAR]_vars

\* C16: GetActionResult for an action key that an UpdateActionResult
\* acknowledged does not answer NotFound
C16_ActionResultRoundTrip ==
    (ar.pc = "done" /\ ar.rpc = "get" /\ <<ar.inst, ar.hash>> \in ar.acked)
        => ar.status # "NotFound"

----------------------------------------------------------------------------
(* Key derivation on its own: draw two pairs, derive both names *)

NoNames == <<>>

InitKey ==
    /\ store = <<>> /\ now = 0 /\ srvMetrics = TRUE /\ crashed = FALSE
    /\ put = <<>> /\ get = <<>> /\ cont = <<>> /\ prn = <<>> /\ cfg = <<>>
    /\ okKeys = {}
    /\ nput = 0
    /\ ar = <<>>
    /\ loop = <<>>
    /\ sd = <<>>
    /\ conf = <<>>
    /\ gc = <<>>
    /\ \E k1 \in GrammarKeys, k2 \in GrammarKeys :
          kd = [k1 |-> k1, k2 |-> k2, names |-> NoNames]

Derive ==
    /\ kd.names = NoNames
    /\ kd' = [kd EXCEPT !.names = <<ObjectName(kd.k1[1], kd.k1[2]),
                                     ObjectName(kd.k2[1], kd.k2[2])>>]
    /\ UNCHANGED <<store, now, srvMetrics, crashed, put, get, cont, prn, cfg, okKeys, nput, ar, loop, sd, conf, gc>>

NextKey == Derive

SpecKey == InitKey /\ [][NextKey]_vars

\* C5: distinct (instance, hash) pairs of the grammar get distinct object names
C5_DisjointNames ==
    (kd.names # NoNames /\ kd.k1 # kd.k2) => kd.names[1] # kd.names[2]

\* C27: the object name of (instance, hash) is "cache/", the instance with
\* each '/', '\' and ':' replaced by '_' (and "cache_" put before a leading
\* '.'), a '/', and the hash
C27_NameComposition ==
    kd.names # NoNames =>
        LET inst == kd.k1[1]
            i1 == ReplaceAll(ReplaceAll(ReplaceAll(inst, "/", "_"), "\\", "_"), ":", "_")
            i2 == IF HasPrefix(i1, <<".">>) THEN CacheUnderscore \o i1 ELSE i1
        IN  kd.names[1] = CachePrefix \o i2 \o <<"/">> \o kd.k1[2]

----------------------------------------------------------------------------
(* pruning.Service.Start: the ticker and the loop around RunPruning.  The  *)
(* ticker's channel holds one tick; a tick that fires while one is held is *)
(* dropped.  A cycle takes as long as it takes.                            *)

\* Start has been called: the ticker exists, the initial cycle has not begun
LoopIdle ==
    [pc |-> "start", tickC |-> 0, heldSince |-> "none", ctxDone |-> FALSE,
     fired |-> 0, cycles |-> 0, startedBy |-> "none", errs |-> 0]

\* the ticker's period elapses (no sooner than the initial cycle begins): a
\* tick is sent on ticker.C unless one is waiting there already (heldSince:
\* what the loop was doing when the tick that waits in the channel fired)
TickerFire ==
    /\ loop.pc \in {"running", "select"}
    /\ loop.fired < MaxTicks
    /\ loop' = IF loop.tickC = 0
               THEN [loop EXCEPT !.tickC = 1, !.fired = @ + 1,
                                 !.heldSince = IF loop.pc = "running" THEN "run" ELSE "wait"]
               ELSE [loop EXCEPT !.fired = @ + 1]
    /\ UNCHANGED <<store, now, srvMetrics, crashed, put, get, cont, prn, cfg, kd, okKeys, nput, ar, sd, conf, gc>>

\* "Run initial pruning": the first cycle begins
LoopInitial ==
    /\ loop.pc = "start"
    /\ loop' = [loop EXCEPT !.pc = "running", !.cycles = 1, !.startedBy = "initial"]
    /\ UNCHANGED <<store, now, srvMetrics, crashed, put, get, cont, prn, cfg, kd, okKeys, nput, ar, sd, conf, gc>>

\* RunPruning returns, with or without an error (an error is logged and
\* counted, the loop goes on)
LoopCycleEnd(err) ==
    /\ loop.pc = "running"
    /\ loop' = [loop EXCEPT !.pc = "select",
                            !.errs = IF err /\ loop.startedBy # "initial" /\ @ < MaxCycles
                                     THEN @ + 1 ELSE @]
    /\ UNCHANGED <<store, now, srvMetrics, crashed, put, get, cont, prn, cfg, kd, okKeys, nput, ar, sd, conf, gc>>

\* case <-ticker.C: the tick held by the channel is received and the next
\* cycle begins
LoopTick ==
    /\ loop.pc = "select"
    /\ loop.tickC = 1
    /\ loop.cycles < MaxCycles
    /\ loop' = [loop EXCEPT !.pc = "running", !.tickC = 0, !.heldSince = "none",
                            !.cycles = @ + 1,
                            !.startedBy = IF loop.heldSince = "run" THEN "remembered"
                                          ELSE "fresh"]
    /\ UNCHANGED <<store, now, srvMetrics, crashed, put, get, cont, prn, cfg, kd, okKeys, nput, ar, sd, conf, gc>>

\* the context Start was given is cancelled
LoopCtxCancel ==
    /\ ~loop.ctxDone
    /\ loop.pc # "returned"
    /\ loop' = [loop EXCEPT !.ctxDone = TRUE]
    /\ UNCHANGED <<store, now, srvMetrics, crashed, put, get, cont, prn, cfg, kd, okKeys, nput, ar, sd, conf, gc>>

\* case <-ctx.Done(): Start returns and the deferred ticker.Stop() runs
LoopExit ==
    /\ loop.pc = "select"
    /\ loop.ctxDone
    /\ loop' = [loop EXCEPT !.pc = "returned", !.tickC = 0, !.heldSince = "none"]
    /\ UNCHANGED <<store, now, srvMetrics, crashed, put, get, cont, prn, cfg, kd, okKeys, nput, ar, sd, conf, gc>>

InitLoop ==
    /\ store = <<>>
    /\ now = 0
    /\ srvMetrics = TRUE
    /\ crashed = FALSE
    /\ put = [s \in PutIds |-> PutIdle]
    /\ get = GetIdle
    /\ cont = ContIdle
    /\ prn = PrnIdle
    /\ cfg = <<>>
    /\ kd = KdIdle
    /\ okKeys = {}
    /\ nput = 0
    /\ ar = ArIdle
    /\ loop = LoopIdle
    /\ sd = <<>>
    /\ conf = <<>>
    /\ gc = <<>>

NextLoop ==
    \/ TickerFire
    \/ LoopInitial
    \/ \E err \in BOOLEAN : LoopCycleEnd(err)
    \/ LoopTick
    \/ LoopCtxCancel
    \/ LoopExit

SpecLoop == InitLoop /\ [][NextLoop]_vars

\* C21: a cycle never begins from a tick that fired while the cycle before
\* it was still running; such a tick is dropped, and the next cycle waits
\* for a tick that fires after the cycle has finished
C21_TicksDuringRunDropped == loop.startedBy # "remembered"

----------------------------------------------------------------------------
(* Start with RunPruning as the body of its loop: every cycle the loop     *)
(* begins measures, lists, selects and deletes on the bucket, and the loop *)
(* goes on when RunPruning has returned.                                   *)

\* where Start goes when RunPruning has returned: the error, if any, is
\* logged and the for loop selects again
StartAfterReturnStopsOnError(err) == IF err THEN "returned" ELSE "select"

StartAfterReturn(err) == "select"

\* "Run initial pruning": s.RunPruning(ctx) is called before the loop
StartInitial ==
    /\ loop.pc = "start"
    /\ loop' = [loop EXCEPT !.pc = "running", !.cycles = 1, !.startedBy = "initial"]
    /\ prn' = [PrnIdle EXCEPT !.ntouch = prn.ntouch]
    /\ UNCHANGED <<store, now, srvMetrics, crashed, put, get, cont, cfg, kd, okKeys, nput, ar, sd, conf, gc>>

\* case <-ticker.C: the tick the channel holds is received and s.RunPruning(ctx)
\* is called
StartTick ==
    /\ loop.pc = "select"
    /\ loop.tickC = 1
    /\ loop.cycles < MaxCycles
    /\ loop' = [loop EXCEPT !.pc = "running", !.tickC = 0, !.heldSince = "none",
                            !.cycles = @ + 1,
                            !.startedBy = IF loop.heldSince = "run" THEN "remembered"
                                          ELSE "fresh"]
    /\ prn' = [PrnIdle EXCEPT !.ntouch = prn.ntouch]
    /\ UNCHANGED <<store, now, srvMetrics, crashed, put, get, cont, cfg, kd, okKeys, nput, ar, sd, conf, gc>>

\* RunPruning has returned: its error is logged, and after a tick's cycle
\* counted in PruningErrors; nothing the cycle did with single entries
\* reaches the counter
StartReturn ==
    LET err == prn.ended = "error" IN
    /\ loop.pc = "running"
    /\ prn.pc = "idle"
    /\ prn.ended \in {"error", "noop", "done"}
    /\ loop' = [loop EXCEPT !.pc = StartAfterReturn(err),
                            !.errs = IF err /\ loop.startedBy # "initial" /\ @ < MaxCycles
                                     THEN @ + 1 ELSE @]
    /\ UNCHANGED <<store, now, srvMetrics, crashed, put, get, cont, prn, cfg, kd, okKeys, nput, ar, sd, conf, gc>>

\* Start is called on a bucket of up to two 1-byte entries, four or eight
\* days old, with one byte allowed
InitStart ==
    /\ store \in UNION {
          {[n \in {ObjectName(k[1], k[2]) : k \in ks} |->
              LET k == CHOOSE k \in ks : ObjectName(k[1], k[2]) = n IN
              StoredObject(k, 1, PruneNow - ag[k])] :
            ag \in [ks -> {4 * Day, 8 * Day}]} :
          ks \in SUBSET {<<IA, H1>>, <<IA, H2>>}}
    /\ now = PruneNow
    /\ srvMetrics = TRUE
    /\ crashed = FALSE
    /\ put = [s \in PutIds |-> PutIdle]
    /\ get = GetIdle
    /\ cont = ContIdle
    /\ prn = PrnIdle
    /\ cfg \in [MaxCacheSize : {1}, RetentionDays : {1, 30}]
    /\ kd = KdIdle
    /\ okKeys = {k \in PruneKeys : ObjectName(k[1], k[2]) \in DOMAIN store}
    /\ nput = 0
    /\ ar = ArIdle
    /\ loop = LoopIdle
    /\ sd = <<>>
    /\ conf = <<>>
    /\ gc = <<>>

\* the steps of RunPruning are taken between the loop's call and its return
NextStart ==
    \/ ~crashed /\ TickerFire
    \/ StartInitial
    \/ ~crashed /\ StartTick
    \/ loop.pc = "running" /\ prn.ended = "none" /\ \E mfail \in BOOLEAN : PrnMeasure(mfail)
    \/ loop.pc = "running" /\ \E lfail \in BOOLEAN : PrnList(lfail)
    \/ /\ loop.pc = "running"
       /\ \E sorted \in SortedOrders(CandidatesOf(prn.entries, now, cfg.RetentionDays)) :
             PrnSelect(sorted)
    \/ loop.pc = "running" /\ \E dfail \in BOOLEAN : PrnDelete(dfail)
    \/ ~crashed /\ StartReturn
    \/ ~crashed /\ LoopCtxCancel
    \/ ~crashed /\ LoopExit

SpecStart == InitStart /\ [][NextStart]_vars

C32_MeasurementFailureAborts ==
    /\ [](prn.ended = "error"
            => (/\ prn.pc = "idle" /\ prn.toDelete = <<>>
                /\ prn.deletedCount = 0 /\ ~prn.delFailed))
    /\ [][prn'.ended = "error" /\ prn.ended # "error" => store' = store]_vars
    /\ [][(loop.pc = "running" /\ loop'.pc # "running" /\ prn.ended = "error")
            => (loop'.pc = "select" /\ ~crashed')]_vars
    /\ [][(loop.pc # "running" /\ loop'.pc = "running" /\ loop.cycles >= 1)
            => (loop.pc = "select" /\ loop.tickC = 1 /\ loop'.tickC = 0)]_vars

\* a failed initial cycle and a failed later cycle, each followed by a cycle
\* a tick began, over a bucket that was above its budget and is as it was
C32_Witness ==
    /\ loop.cycles = 3 /\ loop.pc = "running" /\ loop.errs = 1
    /\ prn.ended = "none"
    /\ GetTotalSize(store) > cfg.MaxCacheSize

----------------------------------------------------------------------------
(* main: serving, and the shutdown sequence after SIGINT/SIGTERM.  The     *)
(* 30 s of the shutdown context end at some moment of their own; how long  *)
(* the RPCs in flight take is up to them.                                  *)

\* the server is up: health SERVING, the listener accepts, main waits on sigChan
SdIdle ==
    [pc |-> "serving", health |-> "SERVING", accepting |-> TRUE, inflight |-> 0,
     accepted |-> 0, gs |-> "none", deadline |-> FALSE, woken |-> "none", forced |-> FALSE,
     lateDrain |-> FALSE, aborted |-> 0]

\* a client's RPC is accepted
SdRpcArrive ==
    /\ sd.accepting
    /\ sd.accepted < MaxRpcs
    /\ sd' = [sd EXCEPT !.inflight = @ + 1, !.accepted = @ + 1]
    /\ UNCHANGED <<store, now, srvMetrics, crashed, put, get, cont, prn, cfg, kd, okKeys, nput, ar, loop, conf, gc>>

\* an RPC in flight returns
SdRpcFinish ==
    /\ sd.inflight > 0
    /\ sd' = [sd EXCEPT !.inflight = @ - 1]
    /\ UNCHANGED <<store, now, srvMetrics, crashed, put, get, cont, prn, cfg, kd, okKeys, nput, ar, loop, conf, gc>>

\* <-sigChan: SIGINT or SIGTERM arrives
SdSignal ==
    /\ sd.pc = "serving"
    /\ sd' = [sd EXCEPT !.pc = "signalled"]
    /\ UNCHANGED <<store, now, srvMetrics, crashed, put, get, cont, prn, cfg, kd, okKeys, nput, ar, loop, conf, gc>>

\* healthServer.SetServingStatus("", NOT_SERVING)
SdFlipHealth ==
    /\ sd.pc = "signalled"
    /\ sd' = [sd EXCEPT !.pc = "flipped", !.health = "NOT_SERVING"]
    /\ UNCHANGED <<store, now, srvMetrics, crashed, put, get, cont, prn, cfg, kd, okKeys, nput, ar, loop, conf, gc>>

\* the shutdown context with its 30 s timer, the done channel and the
\* goroutine are created, and main blocks in the select
SdBeginStop ==
    /\ sd.pc = "flipped"
    /\ sd' = [sd EXCEPT !.pc = "select", !.gs = "stopping"]
    /\ UNCHANGED <<store, now, srvMetrics, crashed, put, get, cont, prn, cfg, kd, okKeys, nput, ar, loop, conf, gc>>

\* goroutine: grpcServer.GracefulStop() closes the listeners and begins to
\* wait for the RPCs in flight
SdGracefulStop ==
    /\ sd.gs = "stopping"
    /\ sd' = [sd EXCEPT !.gs = "draining", !.accepting = FALSE]
    /\ UNCHANGED <<store, now, srvMetrics, crashed, put, get, cont, prn, cfg, kd, okKeys, nput, ar, loop, conf, gc>>

\* goroutine: no RPC is left, GracefulStop returns and done is closed; a
\* main blocked in the select with nothing ready yet is woken by it
SdDrained ==
    /\ sd.gs = "draining"
    /\ sd.inflight = 0
    /\ sd' = [sd EXCEPT !.gs = "closed",
                        !.woken = IF @ = "none" /\ sd.pc = "select" THEN "done" ELSE @]
    /\ UNCHANGED <<store, now, srvMetrics, crashed, put, get, cont, prn, cfg, kd, okKeys, nput, ar, loop, conf, gc>>

\* the 30 s of shutdownCtx are over: shutdownCtx.Done() is closed
\* (lateDrain: draining had not completed at that moment)
SdDeadline ==
    /\ sd.pc = "select"
    /\ ~sd.deadline
    /\ sd' = [sd EXCEPT !.deadline = TRUE, !.lateDrain = (sd.gs # "closed"),
                        !.woken = IF @ = "none" THEN "deadline" ELSE @]
    /\ UNCHANGED <<store, now, srvMetrics, crashed, put, get, cont, prn, cfg, kd, okKeys, nput, ar, loop, conf, gc>>

SdSelectBranchPrefersDeadline(woken, deadline) ==
    IF deadline THEN "deadline" ELSE woken

\* the case main's select takes: the one whose channel woke it
SdSelectBranch(woken, deadline) == woken

\* main leaves the select: "Server stopped gracefully", or "Forcing server
\* shutdown" and grpcServer.Stop(), which closes every connection and so
\* ends the RPCs still in flight
SdSelect ==
    /\ sd.pc = "select"
    /\ sd.woken # "none"
    /\ sd' = IF SdSelectBranch(sd.woken, sd.deadline) = "done"
             THEN [sd EXCEPT !.pc = "stopped"]
             ELSE [sd EXCEPT !.pc = "stopped", !.forced = TRUE, !.accepting = FALSE,
                             !.aborted = sd.inflight, !.inflight = 0]
    /\ UNCHANGED <<store, now, srvMetrics, crashed, put, get, cont, prn, cfg, kd, okKeys, nput, ar, loop, conf, gc>>

InitShutdown ==
    /\ store = <<>>
    /\ now = 0
    /\ srvMetrics = FALSE
    /\ crashed = FALSE
    /\ put = [s \in PutIds |-> PutIdle]
    /\ get = GetIdle
    /\ cont = ContIdle
    /\ prn = PrnIdle
    /\ cfg = <<>>
    /\ kd = KdIdle
    /\ okKeys = {}
    /\ nput = 0
    /\ ar = ArIdle
    /\ loop = LoopIdle
    /\ sd = SdIdle
    /\ conf = <<>>
    /\ gc = <<>>

NextShutdown ==
    \/ SdRpcArrive
    \/ SdRpcFinish
    \/ SdSignal
    \/ SdFlipHealth
    \/ SdBeginStop
    \/ SdGracefulStop
    \/ SdDrained
    \/ SdDeadline
    \/ SdSelect

SpecShutdown == InitShutdown /\ [][NextShutdown]_vars

\* C23: once the listener has stopped accepting, health is NOT_SERVING, and
\* health never goes back to SERVING; the RPCs in flight end on their own
\* unless the server is force-stopped; and when main has left the select the
\* server was force-stopped exactly if the 30 s ran out before draining
\* had completed
C23_ShutdownOrdering ==
    /\ [](~sd.accepting => sd.health = "NOT_SERVING")
    /\ [][sd.health = "NOT_SERVING" => sd'.health = "NOT_SERVING"]_vars
    /\ [](sd.aborted > 0 => sd.forced)
    /\ [](sd.forced => sd.pc = "stopped")
    /\ [](sd.pc = "stopped" => (sd.forced <=> (sd.deadline /\ sd.lateDrain)))

\* a forced stop: the 30 s ran out with RPCs still in flight, which Stop ended
C23_Witness ==
    /\ sd.pc = "stopped" /\ sd.forced /\ sd.aborted > 0
    /\ sd.health = "NOT_SERVING"

----------------------------------------------------------------------------
(* config.Load and Config.Validate *)

MaxPort == 65535

\* the settings envconfig may have read from the environment
ConfPorts == {0, 1, 8080, MaxPort, MaxPort + 1}
ConfNames == {<<>>, <<"b">>}
ConfCounts == {-1, 0, 24}
Configs ==
    [BucketName : ConfNames, ProjectID : ConfNames,
     ServerPort : ConfPorts, MetricsPort : ConfPorts,
     MaxCacheSizeGB : ConfCounts, IntervalHours : ConfCounts, RetentionDays : ConfCounts]

\* Config.Validate: the first check that fails names the error; "nil" when
\* none does
Validate(c) ==
    IF c.BucketName = <<>> THEN "storage bucket name is required"
    ELSE IF c.ProjectID = <<>> THEN "storage project ID is required"
    ELSE IF c.ServerPort <= 0 \/ c.ServerPort > MaxPort THEN "invalid server port"
    ELSE IF c.MetricsPort <= 0 \/ c.MetricsPort > MaxPort THEN "invalid metrics port"
    ELSE IF c.MaxCacheSizeGB <= 0 THEN "max cache size must be positive"
    ELSE IF c.RetentionDays <= 0 THEN "retention days must be positive"
    ELSE "nil"

\* Load: the configuration is read, then validated
ConfValidate ==
    /\ conf.pc = "read"
    /\ conf' = [conf EXCEPT !.pc = "validated", !.err = Validate(conf.c)]
    /\ UNCHANGED <<store, now, srvMetrics, crashed, put, get, cont, prn, cfg, kd, okKeys, nput, ar, loop, sd, gc>>

InitConfig ==
    /\ store = <<>>
    /\ now = 0
    /\ srvMetrics = FALSE
    /\ crashed = FALSE
    /\ put = [s \in PutIds |-> PutIdle]
    /\ get = GetIdle
    /\ cont = ContIdle
    /\ prn = PrnIdle
    /\ cfg = <<>>
    /\ kd = KdIdle
    /\ okKeys = {}
    /\ nput = 0
    /\ ar = ArIdle
    /\ loop = <<>>
    /\ sd = <<>>
    /\ conf \in {[pc |-> "read", c |-> c, err |-> "none"] : c \in Configs}
    /\ gc = <<>>

NextConfig == ConfValidate

SpecConfig == InitConfig /\ [][NextConfig]_vars

\* C24: Validate returns an error whenever a port is outside 1..65535, the
\* two ports are equal, or the maximum cache size, the prune interval or the
\* retention days is not positive; and returns nil otherwise when bucket and
\* project are set
C24_ValidateRejectsInvalid ==
    conf.pc = "validated" =>
        LET c == conf.c
            invalid == \/ c.ServerPort < 1 \/ c.ServerPort > 65535
                       \/ c.MetricsPort < 1 \/ c.MetricsPort > 65535
                       \/ c.ServerPort = c.MetricsPort
                       \/ c.MaxCacheSizeGB <= 0
                       \/ c.IntervalHours <= 0
                       \/ c.RetentionDays <= 0
        IN  /\ invalid => conf.err # "nil"
            /\ (~invalid /\ c.BucketName # <<>> /\ c.ProjectID # <<>>) => conf.err = "nil"

----------------------------------------------------------------------------
(* gcs Client.Prune, the standalone pruner: one run over the bucket, while  *)
(* the cache goes on serving reads that rewrite an object's metadata       *)

GcIdle ==
    [pc |-> "idle", objects |-> <<>>, idx |-> 0, totalBytes |-> 0, threshold |-> 0,
     deleted |-> 0, bytesFreed |-> 0, errs |-> 0, ended |-> "none"]

\* bucket.Objects with an empty prefix, read to IteratorDone: the
\* ObjectAttrs of every object (Name, Size, Updated), in the order of the names
GcObjects(st) ==
    LET names == InNameOrder(DOMAIN st) IN
    [i \in 1..Len(names) |->
        [name |-> names[i], size |-> st[names[i]].size, updated |-> st[names[i]].updated]]

\* the outcomes of sort.Slice by Updated (the sort is not stable)
GcSortedOrders(objs) ==
    {[i \in 1..Len(objs) |-> objs[p[i]]] : p \in
        {q \in Perms(Len(objs)) :
            \A i, j \in 1..Len(objs) :
                i < j => ~(objs[q[j]].updated < objs[q[i]].updated)}}

GcSkipsNothing(updated, threshold) == FALSE

\* obj.Updated.After(threshold): the object is skipped as too recent
GcSkips(updated, threshold) == updated > threshold

\* the scan, the comparison with MaxTotalBytes, the sort and the threshold
GcScan(lfail, sorted) ==
    LET objs == GcObjects(store)
        total == SumSizes(objs)
    IN
    /\ gc.pc = "idle"
    /\ sorted \in GcSortedOrders(objs)
    /\ gc' = IF lfail THEN [GcIdle EXCEPT !.pc = "done", !.ended = "error"]
             ELSE IF total <= cfg.MaxTotalBytes
                  THEN [GcIdle EXCEPT !.pc = "done", !.ended = "noop", !.totalBytes = total]
             ELSE [GcIdle EXCEPT !.pc = "walk", !.objects = sorted, !.idx = 1,
                                 !.totalBytes = total,
                                 !.threshold = now - cfg.MinAgeToDelete]
    /\ UNCHANGED <<store, now, srvMetrics, crashed, put, get, cont, prn, cfg, kd, okKeys, nput, ar, loop, sd, conf>>

\* one turn of the loop over the sorted objects: the break at the budget, the
\* skip of a recent object, or the delete with its bookkeeping (a delete
\* that fails, an object already gone included, counts an error; a
\* DeleteBatchSize of 0 faults in the modulo after the first delete)
GcWalk(dfail) ==
    LET obj   == gc.objects[gc.idx]
        gone  == obj.name \notin DOMAIN store
        step(r) == IF gc.idx = Len(gc.objects)
                   THEN [r EXCEPT !.pc = "done", !.ended = "done"]
                   ELSE [r EXCEPT !.idx = @ + 1]
    IN
    /\ ~crashed
    /\ gc.pc = "walk"
    /\ IF gc.totalBytes <= cfg.MaxTotalBytes
       THEN /\ ~dfail
            /\ gc' = [gc EXCEPT !.pc = "done", !.ended = "done"]
            /\ UNCHANGED <<store, okKeys, crashed>>
       ELSE IF GcSkips(obj.updated, gc.threshold)
       THEN /\ ~dfail
            /\ gc' = step(gc)
            /\ UNCHANGED <<store, okKeys, crashed>>
       ELSE IF dfail \/ gone
       THEN /\ gc' = step([gc EXCEPT !.errs = @ + 1])
            /\ UNCHANGED <<store, okKeys, crashed>>
       ELSE /\ store' = StoreWithout(store, obj.name)
            /\ okKeys' = okKeys \ KeysGone(store, StoreWithout(store, obj.name))
            /\ IF cfg.DeleteBatchSize = 0
               THEN /\ gc' = [gc EXCEPT !.pc = "panic", !.ended = "panic",
                                        !.deleted = @ + 1,
                                        !.bytesFreed = @ + obj.size,
                                        !.totalBytes = @ - obj.size]
                    /\ crashed' = TRUE
               ELSE /\ gc' = step([gc EXCEPT !.deleted = @ + 1,
                                             !.bytesFreed = @ + obj.size,
                                             !.totalBytes = @ - obj.size])
                    /\ UNCHANGED crashed
    /\ UNCHANGED <<now, srvMetrics, put, get, cont, prn, cfg, kd, nput, ar, loop, sd, conf>>

\* Prune is called on a bucket of up to three entries of one or two bytes,
\* written an hour, a day or eight days ago, with a minimum age of a day
InitGcs ==
    /\ store \in UNION {
          {[n \in {ObjectName(k[1], k[2]) : k \in ks} |->
              LET k == CHOOSE k \in ks : ObjectName(k[1], k[2]) = n IN
              StoredObject(k, sz[k], PruneNow - ag[k])] :
            sz \in [ks -> {1, 2}], ag \in [ks -> {Hour, Day, 8 * Day}]} :
          ks \in SUBSET PruneKeys}
    /\ now = PruneNow
    /\ srvMetrics = TRUE
    /\ crashed = FALSE
    /\ put = [s \in PutIds |-> PutIdle]
    /\ get = GetIdle
    /\ cont = ContIdle
    /\ prn = PrnIdle
    /\ cfg \in [MaxTotalBytes : {1, 2}, MinAgeToDelete : {Day}, DeleteBatchSize : {0, 1}]
    /\ kd = KdIdle
    /\ okKeys = {k \in PruneKeys : ObjectName(k[1], k[2]) \in DOMAIN store}
    /\ nput = 0
    /\ ar = ArIdle
    /\ loop = <<>>
    /\ sd = <<>>
    /\ conf = <<>>
    /\ gc = GcIdle

NextGcs ==
    \/ \E lfail \in BOOLEAN, sorted \in GcSortedOrders(GcObjects(store)) : GcScan(lfail, sorted)
    \/ \E dfail \in BOOLEAN : GcWalk(dfail)
    \/ \E k \in PruneKeys : Touch(k[1], k[2])

SpecGcs == InitGcs /\ [][NextGcs]_vars

\* C35: Prune issues a delete only for an object whose Updated, as the scan
\* read it, is not after now - MinAgeToDelete, and only while its running
\* total is above MaxTotalBytes; a run that ends its walk above the budget
\* has still deleted none of the recent objects
C35_MinAgeAndBudgetStop ==
    [][(gc.pc = "walk" /\ (gc'.deleted # gc.deleted \/ gc'.errs # gc.errs
                            \/ DOMAIN store' # DOMAIN store))
         => (/\ gc.objects[gc.idx].updated <= gc.threshold
             /\ gc.totalBytes > cfg.MaxTotalBytes
             /\ DOMAIN store \ DOMAIN store' \subseteq {gc.objects[gc.idx].name})]_vars

\* a run that walked all the objects, deleted one, skipped a recent one that
\* is still there, and ended above MaxTotalBytes
C35_Witness ==
    /\ gc.pc = "done" /\ gc.ended = "done"
    /\ gc.deleted >= 1
    /\ gc.totalBytes > cfg.MaxTotalBytes
    /\ \E i \in 1..Len(gc.objects) :
          /\ gc.objects[i].updated > gc.threshold
          /\ gc.objects[i].name \in DOMAIN store

====
